---- MODULE Spec2Model ----
(***************************************************************************)
(* Model of the karyo coding agent: the token estimator                    *)
(* (src/util/token.ts), the context manager (src/context.ts), the          *)
(* permission gate (src/permission.ts), the tools that consult it          *)
(* (src/tools/*.ts) and the two agent loops (src/agent.ts on the AI SDK,   *)
(* and the earlier Anthropic loop of src/unnamed/part_000).                *)
(*                                                                         *)
(* Strings.  A string is modelled as a record [s, pad]: the literal text s *)
(* followed by pad filler characters.  Its length is Len(s) + pad, so a    *)
(* 50,000-character tool output is [s |-> "", pad |-> 50000] and the fixed *)
(* strings of the program keep their text.  Two such records are equal     *)
(* exactly when the strings are, because no literal used here ends in the  *)
(* filler character.                                                       *)
(***************************************************************************)
EXTENDS Integers, Sequences, FiniteSets, TLC

VARIABLES
    conv,        \* context-manager harness: the conversation handed to the manager
    ctxModel,    \* context-manager harness: the model id the manager is bound to
    pruned1,     \* result of pruneToolOutputs(conv)
    pruned2,     \* result of pruneToolOutputs(pruned1.messages)
    processed,   \* result of processMessages(conv, model)
    summarized,  \* result of summarize(conv, model)
    ctxOutcome,  \* what the summarizing model call did
    cpc,         \* which operations of the harness have run
    impl,        \* which runAgent is built: "sdk" (agent.ts) or "legacy" (part_000)
    model,       \* the model id of the session (index.ts)
    conversation, \* the conversation array owned by the REPL (index.ts:476)
    pc,          \* "prompt", "awaiting-summary", "awaiting-model", "awaiting-tools", "exited"
    request,     \* the conversation of the latest request sent to the model
    sdkPrompt,   \* agent.ts: processedMessages, the messages given to streamText
    responseMessages, \* agent.ts: the messages the SDK has produced in this turn
    pendingCalls,     \* tool calls of the current step, not yet resolved
    running,     \* positions of the pending calls whose execution is in flight
    executed,    \* per pending call, the ToolResult returned (or NotRun)
    step,        \* model steps completed in this turn
    requests,    \* model requests sent in this session
    nextCallId,  \* the provider's next tool-call identifier
    turnInfo,    \* what processMessages did on entry to this turn
    contextWarning, \* agent.ts:228-230, the warning of the last completed turn
    lastCommand, \* index.ts:367-419, the last slash command the REPL handled
    approvedPatterns, \* permission.ts:26, the keys approved with "always"
    fs,          \* the files of the working directory: path -> content or Absent
    invocations, \* the calls of a tool's execute so far, each with its position
    estText,     \* estimator harness: the text handed to estimateTokens
    estTokens,   \* estimator harness: what estimateTokens returned
    estDone,     \* estimator harness: estimateTokens has returned
    permLog      \* permission harness: the askPermission calls made so far

ctxVars == <<conv, ctxModel, pruned1, pruned2, processed, summarized, ctxOutcome, cpc>>

agentVars == <<impl, model, conversation, pc, request, sdkPrompt, responseMessages,
               pendingCalls, running, executed, step, requests, nextCallId, turnInfo,
               contextWarning, lastCommand>>

toolVars == <<approvedPatterns, fs, invocations>>

estVars == <<estText, estTokens, estDone>>

permVars == <<permLog>>

vars == <<conv, ctxModel, pruned1, pruned2, processed, summarized, ctxOutcome, cpc,
          impl, model, conversation, pc, request, sdkPrompt, responseMessages,
          pendingCalls, running, executed, step, requests, nextCallId, turnInfo,
          contextWarning, lastCommand, approvedPatterns, fs, invocations,
          estText, estTokens, estDone, permLog>>

-----------------------------------------------------------------------------
(* Strings *)

Str(lit) == [s |-> lit, pad |-> 0]
Filler(n) == [s |-> "", pad |-> n]
StrLen(t) == Len(t.s) + t.pad
EmptyStr == Str("")

-----------------------------------------------------------------------------
(* src/util/token.ts *)

CHARS_PER_TOKEN == 4

Max(a, b) == IF a >= b THEN a ELSE b

\* Math.round(n / d) for non-negative integers: halves round up.
MathRound(n, d) == (2 * n + d) \div (2 * d)

\* The estimate as a ceiling instead of Math.round.
estimateTokens_ceil(text) ==
    Max(0, (StrLen(text) + CHARS_PER_TOKEN - 1) \div CHARS_PER_TOKEN)

estimateTokens(text) == Max(0, MathRound(StrLen(text), CHARS_PER_TOKEN))

\* The estimator harness before it is used.
EstimatorIdle ==
    /\ estText = EmptyStr
    /\ estTokens = 0
    /\ estDone = FALSE

\* No call of askPermission has been made from the permission harness.
PermissionIdle == permLog = <<>>

-----------------------------------------------------------------------------
(* Messages.  content is either a string (isArray = FALSE, text) or an     *)
(* array of parts (isArray = TRUE, parts).  A part carries the fields of   *)
(* the three part types; args is JSON.stringify(part.args) and result is   *)
(* the string the code calls resultStr (the result itself when it is a     *)
(* string, its JSON serialisation otherwise).                              *)

TextMsg(role, text) ==
    [role |-> role, isArray |-> FALSE, text |-> text, parts |-> <<>>]
PartsMsg(role, parts) ==
    [role |-> role, isArray |-> TRUE, text |-> EmptyStr, parts |-> parts]

TextPart(text) ==
    [type |-> "text", toolCallId |-> 0, toolName |-> EmptyStr, text |-> text,
     args |-> EmptyStr, result |-> EmptyStr, isError |-> FALSE]
ToolCallPart(type, id, name, args) ==
    [type |-> type, toolCallId |-> id, toolName |-> name, text |-> EmptyStr,
     args |-> args, result |-> EmptyStr, isError |-> FALSE]
ToolResultPart(type, id, name, result, isError) ==
    [type |-> type, toolCallId |-> id, toolName |-> name, text |-> EmptyStr,
     args |-> EmptyStr, result |-> result, isError |-> isError]

\* The sum of q[lo..hi], by halves so that long sequences nest shallowly.
RECURSIVE SumRange(_, _, _)
SumRange(q, lo, hi) ==
    IF lo > hi THEN 0
    ELSE IF lo = hi THEN q[lo]
    ELSE LET mid == (lo + hi) \div 2
         IN SumRange(q, lo, mid) + SumRange(q, mid + 1, hi)

SumSeq(q) == SumRange(q, 1, Len(q))

estimatePartTokens(part) ==
    IF part.type = "text" THEN estimateTokens(part.text)
    ELSE IF part.type = "tool-call"
         THEN estimateTokens(part.toolName) + estimateTokens(part.args)
    ELSE IF part.type = "tool-result" THEN estimateTokens(part.result)
    ELSE 0

estimateMessageTokens(message) ==
    4 + (IF ~message.isArray
         THEN estimateTokens(message.text)
         ELSE SumSeq([j \in 1..Len(message.parts) |->
                         estimatePartTokens(message.parts[j])]))

estimateConversationTokens(messages) ==
    SumSeq([i \in 1..Len(messages) |-> estimateMessageTokens(messages[i])])

-----------------------------------------------------------------------------
(* src/types.ts: model limits *)

MODEL_LIMITS ==
    [m \in {"claude-opus-4-5-20251101", "claude-sonnet-4-5-20250929",
            "claude-sonnet-4-20250514", "claude-haiku-3-5-20241022",
            "gemini-2.0-flash", "gemini-2.0-pro", "gemini-1.5-pro",
            "gpt-4o", "gpt-4o-mini", "o1", "o1-mini"} |->
        CASE m \in {"claude-opus-4-5-20251101", "claude-sonnet-4-5-20250929",
                    "claude-sonnet-4-20250514", "claude-haiku-3-5-20241022"}
                 -> [context |-> 200000, output |-> 32000]
          [] m = "gemini-2.0-flash" -> [context |-> 1000000, output |-> 8192]
          [] m \in {"gemini-2.0-pro", "gemini-1.5-pro"}
                 -> [context |-> 2000000, output |-> 8192]
          [] m \in {"gpt-4o", "gpt-4o-mini"} -> [context |-> 128000, output |-> 16384]
          [] m = "o1" -> [context |-> 200000, output |-> 100000]
          [] m = "o1-mini" -> [context |-> 128000, output |-> 65536]]

\* Identifiers outside the table, one per provider prefix.
UnknownModelIds == {"claude-next", "gemini-next", "gpt-next"}

getProviderId(modelId) ==
    CASE modelId \in {"claude-opus-4-5-20251101", "claude-sonnet-4-5-20250929",
                      "claude-sonnet-4-20250514", "claude-haiku-3-5-20241022",
                      "claude-next"} -> "anthropic"
      [] modelId \in {"gemini-2.0-flash", "gemini-2.0-pro", "gemini-1.5-pro",
                      "gemini-next"} -> "google"
      [] modelId \in {"gpt-4o", "gpt-4o-mini", "o1", "o1-mini", "gpt-next"} -> "openai"

getModelLimits(modelId) ==
    IF modelId \in DOMAIN MODEL_LIMITS THEN MODEL_LIMITS[modelId]
    ELSE CASE getProviderId(modelId) = "anthropic" -> [context |-> 200000, output |-> 32000]
           [] getProviderId(modelId) = "google" -> [context |-> 1000000, output |-> 8192]
           [] getProviderId(modelId) = "openai" -> [context |-> 128000, output |-> 16384]
           [] OTHER -> [context |-> 100000, output |-> 8192]

-----------------------------------------------------------------------------
(* src/context.ts *)

PRUNE_PROTECT == 40000
PRUNE_MINIMUM == 20000

\* The thresholds 0.7 and 0.85 are IEEE doubles; usable * threshold is a
\* double product.  ThresholdFloor gives the largest integer not above that
\* product, so that "tokens > usable * threshold" is "tokens >
\* ThresholdFloor".  The product is within 1e-9 of usable * num / den; it
\* differs from an integer by at least 0.05 unless usable * num / den is an
\* integer, and then the double is that integer except for the products
\* listed in RoundsBelow, where it is one ulp below (168000 * 0.7 is
\* 117599.99999999999).
CONTEXT_THRESHOLD == [num |-> 7, den |-> 10]
COMPACT_THRESHOLD == [num |-> 85, den |-> 100]

RoundsBelow == {<<168000, CONTEXT_THRESHOLD>>}

ThresholdFloor(usable, threshold) ==
    IF <<usable, threshold>> \in RoundsBelow
    THEN (usable * threshold.num) \div threshold.den - 1
    ELSE (usable * threshold.num) \div threshold.den

PRUNED_PLACEHOLDER == Str("[Tool output cleared - context management]")

\* Mutant of getUsableContext: the reserve is returned instead of the rest.
getUsableContext_reserveOnly(modelId) == getModelLimits(modelId).output

getUsableContext(modelId) ==
    getModelLimits(modelId).context - getModelLimits(modelId).output

shouldPrune(messages, modelId) ==
    estimateConversationTokens(messages)
        > ThresholdFloor(getUsableContext(modelId), CONTEXT_THRESHOLD)

\* Mutant of shouldCompact: the threshold is taken of the whole context
\* window instead of the usable context.
shouldCompact_totalContext(messages, modelId) ==
    estimateConversationTokens(messages)
        > ThresholdFloor(getModelLimits(modelId).context, COMPACT_THRESHOLD)

shouldCompact(messages, modelId) ==
    estimateConversationTokens(messages)
        > ThresholdFloor(getUsableContext(modelId), COMPACT_THRESHOLD)

\* Mutant of skipRecent: only the most recent turn is skipped.
skipRecent_oneTurn(userTurns) == userTurns < 1

\* context.ts:101  "if (userTurns < 2) continue"
skipRecent(userTurns) == userTurns < 2

\* Mutant of markForPruning: the comparison is inverted.
markForPruning_inverted(accumulatedTokens) == accumulatedTokens < PRUNE_PROTECT

\* Mutant of markForPruning: a running sum of exactly PRUNE_PROTECT marks.
markForPruning_atLeast(accumulatedTokens) == accumulatedTokens >= PRUNE_PROTECT

\* context.ts:120  "if (accumulatedTokens > PRUNE_PROTECT)"
markForPruning(accumulatedTokens) == accumulatedTokens > PRUNE_PROTECT

\* Mutant of belowMinimum: pruning proceeds whenever anything can be freed.
belowMinimum_zero(potentialSavings) == potentialSavings <= 0

\* context.ts:132  "if (potentialSavings < PRUNE_MINIMUM)"
belowMinimum(potentialSavings) == potentialSavings < PRUNE_MINIMUM

\* Mutant of alreadyPruned: parts holding the placeholder are not skipped.
alreadyPruned_never(part) == FALSE

\* context.ts:114  "if (resultStr === PRUNED_PLACEHOLDER) continue"
alreadyPruned(part) == part.result = PRUNED_PLACEHOLDER

\* Body of the inner loop of the first pass (context.ts:106-123) for part j
\* of message i.  st holds the loop's running accumulatedTokens and toPrune.
\* Indices are 1-based here.
scanPart(parts, j, i, st) ==
    LET part == parts[j] IN
    IF part.type = "tool-result" /\ ~alreadyPruned(part)
    THEN LET partTokens == estimateTokens(part.result)
             acc == st.accumulatedTokens + partTokens
         IN [accumulatedTokens |-> acc,
             toPrune |-> IF markForPruning(acc)
                         THEN Append(st.toPrune, [msgIndex |-> i, partIndex |-> j,
                                                  tokens |-> partTokens])
                         ELSE st.toPrune]
    ELSE st

\* Iterations hi, hi - 1, ..., lo of the inner loop, in that order.  The range
\* is halved, and the state after the upper half is bound as a value (the one
\* element of a set) before the lower half starts, so that the depth of
\* evaluation grows with the logarithm of the number of parts and not with
\* the number itself.
RECURSIVE scanPartsRange(_, _, _, _, _)
scanPartsRange(parts, lo, hi, i, st) ==
    IF lo > hi THEN st
    ELSE IF lo = hi THEN scanPart(parts, lo, i, st)
    ELSE LET mid == (lo + hi) \div 2
         IN CHOOSE lower \in {scanPartsRange(parts, lo, mid, i, upper) :
                                upper \in {scanPartsRange(parts, mid + 1, hi, i, st)}} : TRUE

\* Inner loop of the first pass (context.ts:105-124): the parts of message
\* i from part j down to the first.
scanParts(parts, j, i, accumulatedTokens, toPrune) ==
    scanPartsRange(parts, 1, j, i,
                   [accumulatedTokens |-> accumulatedTokens, toPrune |-> toPrune])

\* Body of the outer loop of the first pass (context.ts:93-125) for message i.
\* st holds the loop's running userTurns, accumulatedTokens and toPrune.
scanMessage(messages, i, st) ==
    LET msg == messages[i]
        seen == IF msg.role = "user" THEN st.userTurns + 1 ELSE st.userTurns
    IN IF skipRecent(seen) \/ ~msg.isArray
       THEN [st EXCEPT !.userTurns = seen]
       ELSE LET r == scanParts(msg.parts, Len(msg.parts), i,
                               st.accumulatedTokens, st.toPrune)
            IN [userTurns |-> seen, accumulatedTokens |-> r.accumulatedTokens,
                toPrune |-> r.toPrune]

\* Iterations hi, hi - 1, ..., lo of the outer loop, in that order, halved
\* like scanPartsRange.
RECURSIVE scanMessagesRange(_, _, _, _)
scanMessagesRange(messages, lo, hi, st) ==
    IF lo > hi THEN st
    ELSE IF lo = hi THEN scanMessage(messages, lo, st)
    ELSE LET mid == (lo + hi) \div 2
         IN CHOOSE lower \in {scanMessagesRange(messages, lo, mid, upper) :
                                upper \in {scanMessagesRange(messages, mid + 1, hi, st)}} : TRUE

\* Outer loop of the first pass (context.ts:92-126), newest message first,
\* from message i down to the first; its value is the toPrune list.
scanMessages(messages, i, userTurns, accumulatedTokens, toPrune) ==
    scanMessagesRange(messages, 1, i,
                      [userTurns |-> userTurns, accumulatedTokens |-> accumulatedTokens,
                       toPrune |-> toPrune]).toPrune

\* Mutant of prunedPart: the part is rebuilt without its error flag.
prunedPart_noFlag(part) ==
    [part EXCEPT !.result = PRUNED_PLACEHOLDER, !.isError = FALSE]

\* context.ts:157  "{ ...part, result: PRUNED_PLACEHOLDER }"
prunedPart(part) == [part EXCEPT !.result = PRUNED_PLACEHOLDER]

\* pruneToolOutputs (context.ts:79-166).  sameArray records that the array
\* returned is the very array passed in (line 133) and not a copy.
pruneToolOutputs(messages) ==
    LET toPrune == scanMessages(messages, Len(messages), 0, 0, <<>>)
        potentialSavings == SumSeq([k \in 1..Len(toPrune) |-> toPrune[k].tokens])
        pruneIndices(i) ==
            {toPrune[k].partIndex : k \in {n \in 1..Len(toPrune) : toPrune[n].msgIndex = i}}
        isReplaced(i, j) ==
            /\ messages[i].isArray
            /\ j \in pruneIndices(i)
            /\ messages[i].parts[j].type = "tool-result"
        replacedOf(i) == {j \in 1..Len(messages[i].parts) : isReplaced(i, j)}
        result ==
            [i \in 1..Len(messages) |->
                IF pruneIndices(i) = {} \/ ~messages[i].isArray
                THEN messages[i]
                ELSE [messages[i] EXCEPT !.parts =
                        [j \in 1..Len(messages[i].parts) |->
                            IF isReplaced(i, j)
                            THEN prunedPart(messages[i].parts[j])
                            ELSE messages[i].parts[j]]]]
    IN IF belowMinimum(potentialSavings)
       THEN [messages |-> messages, prunedCount |-> 0, tokensSaved |-> 0,
             sameArray |-> TRUE]
       ELSE [messages |-> result,
             prunedCount |->
                 SumSeq([i \in 1..Len(messages) |-> Cardinality(replacedOf(i))]),
             tokensSaved |->
                 SumSeq([i \in 1..Len(messages) |->
                     SumSeq([j \in 1..Len(messages[i].parts) |->
                         IF isReplaced(i, j)
                         THEN estimateTokens(messages[i].parts[j].result)
                         ELSE 0])]),
             sameArray |-> FALSE]

SUMMARY_PROMPT == Str("What have we accomplished so far in this session?")
SUMMARY_ACK == Str("Thanks for the summary. Let's continue.")

\* context.ts:192-205, the conversation built from the summary text.
summarySkeleton(text) ==
    <<TextMsg("user", SUMMARY_PROMPT),
      TextMsg("assistant", text),
      TextMsg("user", SUMMARY_ACK)>>

\* Mutant of summarize: the summary is appended to the history instead of
\* replacing it.
summarize_appends(messages, outcome) ==
    IF outcome.ok
    THEN [messages |-> messages \o summarySkeleton(outcome.text),
          sameArray |-> FALSE, threw |-> FALSE]
    ELSE [messages |-> messages, sameArray |-> TRUE, threw |-> FALSE]

\* summarize (context.ts:171-210).  outcome is what generateText does:
\* [ok |-> TRUE, text |-> the summary] or [ok |-> FALSE] when it throws.
summarize(messages, outcome) ==
    IF outcome.ok
    THEN [messages |-> summarySkeleton(outcome.text), sameArray |-> FALSE, threw |-> FALSE]
    ELSE [messages |-> messages, sameArray |-> TRUE, threw |-> FALSE]

\* Mutant of processMessages: after a prune the compaction threshold is not
\* checked again.
processMessages_noRecheck(messages, modelId, outcome) ==
    LET p == pruneToolOutputs(messages)
    IN IF shouldPrune(messages, modelId) /\ p.prunedCount > 0
       THEN [messages |-> p.messages, action |-> "pruned",
             sameArray |-> FALSE, summarized |-> FALSE]
       ELSE IF shouldCompact(messages, modelId)
       THEN LET c == summarize(messages, outcome)
            IN [messages |-> c.messages, action |-> "compacted",
                sameArray |-> c.sameArray, summarized |-> TRUE]
       ELSE [messages |-> messages, action |-> "none",
             sameArray |-> TRUE, summarized |-> FALSE]

\* processMessages (context.ts:274-308).  sameArray: the returned array is
\* the array passed in.  summarized: summarize was called.
processMessages(messages, modelId, outcome) ==
    LET p == pruneToolOutputs(messages)
        fallThrough ==
            IF shouldCompact(messages, modelId)
            THEN LET c == summarize(messages, outcome)
                 IN [messages |-> c.messages, action |-> "compacted",
                     sameArray |-> c.sameArray, summarized |-> TRUE]
            ELSE [messages |-> messages, action |-> "none",
                  sameArray |-> TRUE, summarized |-> FALSE]
    IN IF shouldPrune(messages, modelId) /\ p.prunedCount > 0
       THEN IF shouldCompact(p.messages, modelId)
            THEN LET c == summarize(p.messages, outcome)
                 IN [messages |-> c.messages, action |-> "compacted",
                     sameArray |-> FALSE, summarized |-> TRUE]
            ELSE [messages |-> p.messages, action |-> "pruned",
                  sameArray |-> FALSE, summarized |-> FALSE]
       ELSE fallThrough

\* The exponent of the leading bit of b >= 1.
floorLog2(b) == CHOOSE j \in 0..30 : 2^j <= b /\ b \div 2 < 2^j

\* context.ts:245 for a usage of exactly n/2 percent, n odd: whether the
\* double product (estimatedTokens / usableContext) * 100 falls below n/2.
\* The quotient is the double of n/200, that is of n/25 with its 53-bit
\* mantissa m (n * 2^t / 25 rounded to nearest, t = 52 - j for n/25 in
\* [2^j, 2^(j+1))); the product is the double of 25 * m = n * 2^t + d with
\* -12 <= d <= 12.  Doubles are 32 apart where n/25 is in [1.28 * 2^j, 2^(j+1)),
\* so the product is n/2 there; they are 16 apart below 1.28 * 2^j, where the
\* product is one step under n/2 when d is under -8 (rem from 9 to 12; at
\* d = -8 the tie goes to the even mantissa, which is n/2).  An n under 25 is
\* scaled by 32 to keep the arithmetic in integers.
productBelowHalf(n) ==
    LET scaled == IF n < 25 THEN 32 * n ELSE n
        j == floorLog2(scaled \div 25)
        t == (IF n < 25 THEN 57 ELSE 52) - j
        rem == ((n % 25) * ((2^(t % 20)) % 25)) % 25
    IN /\ scaled \div 32 < 2^j
       /\ rem \in 9..12

\* context.ts:245  "Math.round((estimatedTokens / usableContext) * 100)", in
\* doubles: the exact percentage rounded half up, except where the exact
\* percentage is k + 0.5 and the double product falls below it.  (Away from
\* the halves the exact percentage is at least 1 / (2 * usableContext) from
\* a half, far more than the error of the two roundings.)
usagePercentOf(estimatedTokens, usableContext) ==
    LET halves == (200 * estimatedTokens) \div usableContext
    IN IF /\ (200 * estimatedTokens) % usableContext = 0
          /\ halves % 2 = 1
          /\ productBelowHalf(halves)
       THEN (halves - 1) \div 2
       ELSE MathRound(estimatedTokens * 100, usableContext)

\* getStats (context.ts:215-249): the two counters over tool-result parts.
getStats(messages, modelId) ==
    LET countParts(P(_)) ==
            SumSeq([i \in 1..Len(messages) |->
                IF messages[i].isArray
                THEN Cardinality({j \in 1..Len(messages[i].parts) :
                                     P(messages[i].parts[j])})
                ELSE 0])
        isToolResult(part) == part.type = "tool-result"
        isPruned(part) == part.type = "tool-result" /\ part.result = PRUNED_PLACEHOLDER
        estimatedTokens == estimateConversationTokens(messages)
        usableContext == getUsableContext(modelId)
    IN [messageCount |-> Len(messages),
        estimatedTokens |-> estimatedTokens,
        contextLimit |-> getModelLimits(modelId).context,
        outputReserve |-> getModelLimits(modelId).output,
        usableContext |-> usableContext,
        usagePercent |-> usagePercentOf(estimatedTokens, usableContext),
        toolOutputs |-> countParts(isToolResult),
        prunedOutputs |-> countParts(isPruned)]

-----------------------------------------------------------------------------
(* Values of the harness variables before an operation has run *)

NoPrune == [messages |-> <<>>, prunedCount |-> 0, tokensSaved |-> 0, sameArray |-> FALSE]
NoProcess == [messages |-> <<>>, action |-> "none", sameArray |-> FALSE, summarized |-> FALSE]
NoSummary == [messages |-> <<>>, sameArray |-> FALSE, threw |-> FALSE]
NoOutcome == [ok |-> FALSE, text |-> EmptyStr]

\* What generateText does inside summarize.
SummaryOutcomes ==
    { [ok |-> FALSE, text |-> EmptyStr],
      [ok |-> TRUE, text |-> Filler(400)] }

-----------------------------------------------------------------------------
(* src/permission.ts and the tools that consult it.  Commands, paths and    *)
(* answers are strings; a file content is a sequence of words, written out  *)
(* with single spaces.                                                      *)

MaxInvocations == 2

Commands == {"ls -la", " rm -rf /tmp/x", "Git Push --force"}
Paths == {"/w/a.txt", "/w/b.txt"}
Words == {"foo", "bar"}
Absent == <<"ENOENT">>
Answers == {"y", "Yes ", "always", "A", "n", ""}
ExitCodes == {0, 1}

\* permission.ts:30, command.trim().toLowerCase(), on Commands.
trimLower(command) ==
    CASE command = " rm -rf /tmp/x" -> "rm -rf /tmp/x"
      [] command = "Git Push --force" -> "git push --force"
      [] OTHER -> command

\* permission.ts:4-23 on the trimmed commands: "rm -rf /tmp/x" matches /^rm\s/
\* and "git push --force" matches /\bgit\s+push\b/; "ls -la" matches none.
DANGEROUS_BASH_PATTERNS == {"rm -rf /tmp/x", "git push --force"}

\* permission.ts:29-32.
isDangerousCommand(command) == trimLower(command) \in DANGEROUS_BASH_PATTERNS

\* Mutant of permissionKey: the details are left out of the key.
\* Mutant of permissionKey: the key leaves the action out.
permissionKey_detailsOnly(action, details) == details

permissionKey_actionOnly(action, details) == action

\* permission.ts:40, the key of the Approval Record.
permissionKey(action, details) == action \o ":" \o details

\* permission.ts:60, answer.trim().toLowerCase(), on Answers.
normalizeAnswer(answer) ==
    CASE answer = "Yes " -> "yes"
      [] answer = "A" -> "a"
      [] OTHER -> answer

\* permission.ts:62-71: the answer to the prompt.
answerAllows(normalized) == normalized \in {"y", "yes", "always", "a"}

\* Mutant of answerRemembers: every affirmative answer is remembered.
answerRemembers_anyYes(normalized) == normalized \in {"y", "yes", "always", "a"}

answerRemembers(normalized) == normalized \in {"always", "a"}

RECURSIVE Render(_)
Render(content) ==
    IF content = <<>> THEN ""
    ELSE IF Len(content) = 1 THEN content[1]
    ELSE content[1] \o " " \o Render(Tail(content))

PermissionDenied == [output |-> "Permission denied by user", isError |-> TRUE]

NoResult == [output |-> "", isError |-> FALSE]

\* An invocation: the arguments of execute, the locals of the call, where
\* the call stands (pc: the call it awaits, "child" while the promise of the
\* bash tool is pending, "returned" once the result is delivered) and what
\* it has done to the subprocess and to the file.
NoInvocation ==
    [tool |-> "none", pc |-> "none", command |-> "", path |-> "",
     old |-> "", new |-> "", all |-> FALSE,
     newContent |-> <<>>, replacedCount |-> 0, diff |-> "",
     key |-> "", dangerous |-> FALSE, fileExists |-> FALSE,
     asked |-> FALSE, allowed |-> "unasked", prompted |-> FALSE, answer |-> "",
     spawned |-> FALSE, opened |-> FALSE, wrote |-> FALSE,
     proc |-> "none", timer |-> FALSE, resolved |-> FALSE, kills |-> 0,
     firedWhile |-> "unfired", result |-> NoResult]

ToolsIdle ==
    /\ approvedPatterns = {}
    /\ fs = [p \in Paths |-> IF p = "/w/a.txt" THEN <<"foo", "foo">> ELSE Absent]
    /\ invocations = <<>>

-----------------------------------------------------------------------------
(* The agent loop.  src/agent.ts runs the steps of a turn inside the AI     *)
(* SDK's streamText (maxSteps: 20) and copies the SDK's response messages   *)
(* into the conversation when the turn has completed; the loop of           *)
(* src/unnamed/part_000 pushes each message as it is produced.              *)

\* Model requests per session (the summarizing calls not counted), and tool
\* calls per assistant message.
MaxRequests == 4
MaxCalls == 2

maxSteps == 20

AgentModels == {"o1-mini"}
UserTexts == {Filler(8)}
\* tools/index.ts:10-17, the names of the registered tools.
tools == {"read", "glob", "grep", "bash", "write", "edit"}

\* The tool names the model asks for.
ToolCallNames == {"read", "nosuch"}

\* What validating the arguments and running a tool can do: the schema
\* rejects the arguments, or the tool returns a ToolResult, or it throws.
ZodMessage ==
    Str("[\n  {\n    \"code\": \"invalid_type\",\n    \"expected\": \"string\",\n"
        \o "    \"received\": \"undefined\",\n    \"path\": [\n      \"file_path\"\n"
        \o "    ],\n    \"message\": \"Required\"\n  }\n]")
ToolBehaviours ==
    {[kind |-> "rejects", message |-> ZodMessage,
      result |-> [output |-> EmptyStr, isError |-> FALSE]],
     [kind |-> "returns", message |-> EmptyStr,
      result |-> [output |-> Filler(180000), isError |-> FALSE]]}

\* Concatenation of a literal and a string.
Prefixed(lit, t) == [s |-> lit \o t.s, pad |-> t.pad]

\* tools/index.ts:31-56.
executeTool(name, behaviour) ==
    IF name \notin tools
    THEN [output |-> Str("Error: Unknown tool \"" \o name \o "\""), isError |-> TRUE]
    ELSE IF behaviour.kind \in {"rejects", "throws"}
    THEN [output |-> Prefixed("Error executing " \o name \o ": ", behaviour.message),
          isError |-> TRUE]
    ELSE behaviour.result

NotRun == [output |-> EmptyStr, isError |-> FALSE, done |-> FALSE]
Ran(result) == [output |-> result.output, isError |-> result.isError, done |-> TRUE]

NoTurn == [action |-> "none", summarized |-> FALSE, summaryOk |-> FALSE,
           summaryInput |-> <<>>, entry |-> <<>>]

NoWarning == [shown |-> FALSE, usagePercent |-> 0]

\* agent.ts:209-230: the statistics of the conversation at the end of the
\* turn and the warning printed when the rounded percentage is above 70.
endOfTurnWarning(messages, modelId) ==
    LET stats == getStats(messages, modelId)
    IN [shown |-> stats.usagePercent > 70, usagePercent |-> stats.usagePercent]

\* The state of the variables of the agent loop before the session starts.
AgentIdle ==
    /\ impl = "sdk"
    /\ model = "o1-mini"
    /\ conversation = <<>>
    /\ pc = "prompt"
    /\ request = <<>>
    /\ sdkPrompt = <<>>
    /\ responseMessages = <<>>
    /\ pendingCalls = <<>>
    /\ running = {}
    /\ executed = <<>>
    /\ step = 0
    /\ requests = 0
    /\ nextCallId = 1
    /\ turnInfo = NoTurn
    /\ contextWarning = NoWarning
    /\ lastCommand = "none"

Init ==
    /\ impl \in {"sdk", "legacy"}
    /\ model \in AgentModels
    /\ conversation = <<>>
    /\ pc = "prompt"
    /\ request = <<>>
    /\ sdkPrompt = <<>>
    /\ responseMessages = <<>>
    /\ pendingCalls = <<>>
    /\ running = {}
    /\ executed = <<>>
    /\ step = 0
    /\ requests = 0
    /\ nextCallId = 1
    /\ turnInfo = NoTurn
    /\ contextWarning = NoWarning
    /\ lastCommand = "none"
    /\ conv = <<>>
    /\ ctxModel = "o1-mini"
    /\ pruned1 = NoPrune
    /\ pruned2 = NoPrune
    /\ processed = NoProcess
    /\ summarized = NoSummary
    /\ ctxOutcome = NoOutcome
    /\ cpc = "start"
    /\ ToolsIdle
    /\ EstimatorIdle
    /\ PermissionIdle

\* agent.ts:114-121.  "messages.length = 0; messages.push(...processedMessages)"
\* on the REPL's array: when processedMessages is that same array, it is
\* empty by the time it is spread.
replaceInPlace(processedMessages, sameArray) ==
    IF sameArray THEN <<>> ELSE processedMessages

\* Mutant of keptResponseMessage: the tool messages are filtered out.
keptResponseMessage_assistantOnly(m) == m.role = "assistant"

\* agent.ts:197-199, the response messages that are kept.
keptResponseMessage(m) == m.role = "assistant" \/ m.role = "tool"

\* runAgent returns or throws: its locals are gone and the REPL prompts again
\* (index.ts:551-558).
Returned ==
    /\ pc' = "prompt"
    /\ request' = <<>>
    /\ sdkPrompt' = <<>>
    /\ responseMessages' = <<>>
    /\ pendingCalls' = <<>>
    /\ running' = {}
    /\ executed' = <<>>
    /\ step' = 0
    /\ turnInfo' = NoTurn

\* agent.ts:108-137: processMessages has returned r, with what generateText
\* did (outcome) when it summarized; a compacted or pruned conversation
\* replaces the REPL's array and streamText sends the first request of the
\* turn.  pushed is the conversation processMessages was called with.
streamText(pushed, r, outcome) ==
    \E updated \in {r.action \in {"compacted", "pruned"}} :
    \E processedMessages \in {IF updated THEN replaceInPlace(r.messages, r.sameArray)
                              ELSE r.messages} :
    \E p \in {pruneToolOutputs(pushed)} :
       /\ conversation' = IF updated THEN processedMessages ELSE pushed
       /\ sdkPrompt' = processedMessages
       /\ request' = processedMessages
       /\ turnInfo' = [action |-> r.action, summarized |-> r.summarized,
                       summaryOk |-> r.summarized /\ outcome.ok,
                       summaryInput |->
                           IF ~r.summarized THEN <<>>
                           ELSE IF shouldPrune(pushed, model) /\ p.prunedCount > 0
                                THEN p.messages
                                ELSE pushed,
                       entry |-> pushed]
       /\ responseMessages' = <<>>
       /\ pendingCalls' = <<>>
       /\ step' = 0
       /\ requests' = requests + 1
       /\ pc' = "awaiting-model"

\* agent.ts:79-137: runAgent pushes the user message (agent.ts:105) and awaits
\* processMessages (agent.ts:108).  When processMessages requests no summary
\* nothing else runs before streamText is called; otherwise it calls
\* summarize, which awaits the summary request (context.ts:178, 289, 300),
\* and runAgent waits with the user message already in the conversation.
RunAgentWithin(limit) ==
    /\ impl = "sdk"
    /\ pc = "prompt"
    /\ requests < limit
    /\ \E userMessage \in UserTexts :
       \E pushed \in {Append(conversation, TextMsg("user", userMessage))} :
       \E r \in {processMessages(pushed, model, NoOutcome)} :
          IF r.summarized
          THEN /\ conversation' = pushed
               /\ pc' = "awaiting-summary"
               /\ UNCHANGED <<sdkPrompt, request, turnInfo, responseMessages,
                              pendingCalls, step, requests>>
          ELSE streamText(pushed, r, NoOutcome)
    /\ UNCHANGED <<impl, model, contextWarning, lastCommand, nextCallId, running, executed>>
    /\ UNCHANGED <<ctxVars, toolVars, estVars, permVars>>

\* context.ts:177-209 and agent.ts:108-137: the summary request returns or
\* throws, processMessages returns and runAgent goes on.
SummaryReturns ==
    /\ impl = "sdk"
    /\ pc = "awaiting-summary"
    /\ \E outcome \in SummaryOutcomes :
       \E r \in {processMessages(conversation, model, outcome)} :
          streamText(conversation, r, outcome)
    /\ UNCHANGED <<impl, model, contextWarning, lastCommand, nextCallId, running, executed>>
    /\ UNCHANGED <<ctxVars, toolVars, estVars, permVars>>

RunAgent == RunAgentWithin(MaxRequests)

\* agent.ts:187-231: the turn has completed, the kept response messages are
\* pushed onto the conversation.
finishTurn(response) == conversation \o SelectSeq(response, keptResponseMessage)

\* streamText: the model answers with text only; the turn completes.
SdkFinalText ==
    /\ impl = "sdk"
    /\ pc = "awaiting-model"
    /\ LET response == Append(responseMessages, TextMsg("assistant", Filler(12)))
       IN /\ conversation' = finishTurn(response)
          /\ contextWarning' = endOfTurnWarning(conversation', model)
    /\ Returned
    /\ UNCHANGED <<impl, model, lastCommand, requests, nextCallId>>
    /\ UNCHANGED <<ctxVars, toolVars, estVars, permVars>>

\* The tool calls of an assistant message: n calls with fresh identifiers.
NewCalls(names) ==
    [k \in 1..Len(names) |-> [id |-> nextCallId + k - 1, name |-> names[k]]]

\* The lists of tool names of an assistant message: the first name is any
\* of ToolCallNames, the others are "read".
CallNameLists ==
    {[k \in 1..n |-> IF k = 1 THEN first ELSE "read"] :
        n \in 1..MaxCalls, first \in ToolCallNames}

\* streamText: the model answers with n tool calls.
SdkToolCallsWithin(limit, lists) ==
    /\ impl = "sdk"
    /\ pc = "awaiting-model"
    /\ requests < limit
    /\ \E names \in lists :
        /\ pendingCalls' = NewCalls(names)
        /\ executed' = [k \in 1..Len(names) |-> NotRun]
        /\ responseMessages' = Append(responseMessages,
              PartsMsg("assistant",
                  [k \in 1..Len(names) |->
                      ToolCallPart("tool-call", nextCallId + k - 1, Str(names[k]),
                                   Filler(20))]))
        /\ nextCallId' = nextCallId + Len(names)
    /\ pc' = "awaiting-tools"
    /\ UNCHANGED <<impl, model, contextWarning, lastCommand, conversation, request, sdkPrompt, running, step,
                   requests, turnInfo>>
    /\ UNCHANGED <<ctxVars, toolVars, estVars, permVars>>

SdkToolCalls == SdkToolCallsWithin(MaxRequests, CallNameLists)

\* The positions of the pending calls whose execution has not started.
NotStarted == {k \in 1..Len(pendingCalls) : ~executed[k].done /\ k \notin running}

\* streamText starts the execution of a tool call.  agent.ts hands the tools
\* to streamText (agent.ts:131-137) and nothing in it orders their
\* executions: a call is started whether or not another one is in flight.
SdkToolStart ==
    /\ impl = "sdk"
    /\ pc = "awaiting-tools"
    /\ NotStarted # {}
    /\ running' = running \cup {CHOOSE k \in NotStarted : \A j \in NotStarted : k <= j}
    /\ UNCHANGED <<impl, model, contextWarning, lastCommand, conversation, pc, request, sdkPrompt, responseMessages,
                   pendingCalls, executed, step, requests, nextCallId, turnInfo>>
    /\ UNCHANGED <<ctxVars, toolVars, estVars, permVars>>

\* What the execution of the k-th call of a step can do: any of
\* ToolBehaviours for the first call, a returned result for the others.
BehavioursAt ==
    [k \in 1..MaxCalls |->
        IF k = 1 THEN ToolBehaviours ELSE {b \in ToolBehaviours : b.kind = "returns"}]

\* The execution of a tool call returns its ToolResult.
ToolReturns(k, behaviours) ==
    /\ k \in running
    /\ running' = running \ {k}
    /\ \E behaviour \in behaviours :
        executed' = [executed EXCEPT
                        ![k] = Ran(executeTool(pendingCalls[k].name, behaviour))]

SdkToolReturnWith(behavioursAt) ==
    /\ impl = "sdk"
    /\ pc = "awaiting-tools"
    /\ \E k \in running : ToolReturns(k, behavioursAt[k])
    /\ UNCHANGED <<impl, model, contextWarning, lastCommand, conversation, pc, request, sdkPrompt, responseMessages,
                   pendingCalls, step, requests, nextCallId, turnInfo>>
    /\ UNCHANGED <<ctxVars, toolVars, estVars, permVars>>

SdkToolReturn == SdkToolReturnWith(BehavioursAt)

AllExecuted == \A k \in 1..Len(pendingCalls) : executed[k].done

\* The tool-result part the tool set of agent.ts yields for a call: the
\* output text tagged with the call identifier and the error flag.
sdkToolResult(call, result) ==
    ToolResultPart("tool-result", call.id, Str(call.name), result.output, result.isError)

\* Mutant of moreSteps: one step too many.
moreSteps_offByOne(finished) == finished < maxSteps

\* agent.ts:137, maxSteps: another request is sent after the tool results of
\* a step when fewer than maxSteps steps have been made, that step counted.
moreSteps(finished) == finished + 1 < maxSteps

\* streamText: the tools of the step have returned; their results form one
\* tool-role message.  Then the next step is requested, or, at maxSteps,
\* the turn completes.
SdkToolsResolve ==
    /\ impl = "sdk"
    /\ pc = "awaiting-tools"
    /\ AllExecuted
    /\ LET response == Append(responseMessages,
                PartsMsg("tool",
                    [k \in 1..Len(pendingCalls) |->
                        sdkToolResult(pendingCalls[k], executed[k])]))
       IN IF moreSteps(step)
          THEN /\ responseMessages' = response
               /\ request' = sdkPrompt \o response
               /\ requests' = requests + 1
               /\ pc' = "awaiting-model"
               /\ step' = step + 1
               /\ UNCHANGED <<conversation, sdkPrompt, turnInfo, pendingCalls,
                              running, executed, contextWarning>>
          ELSE /\ conversation' = finishTurn(response)
               /\ contextWarning' = endOfTurnWarning(conversation', model)
               /\ requests' = requests
               /\ Returned
    /\ UNCHANGED <<impl, model, lastCommand, nextCallId>>
    /\ UNCHANGED <<ctxVars, toolVars, estVars, permVars>>

\* agent.ts:173-188: the stream fails; runAgent throws before any response
\* message is pushed, index.ts:551-556 reports the error and prompts again.
SdkStreamError ==
    /\ impl = "sdk"
    /\ pc = "awaiting-model"
    /\ Returned
    /\ UNCHANGED <<impl, model, contextWarning, lastCommand, conversation, requests, nextCallId>>
    /\ UNCHANGED <<ctxVars, toolVars, estVars, permVars>>

\* index.ts:379-383 and agent.ts:234-236, part_001:73-77 and part_000:148-150:
\* /clear empties the conversation, whatever it holds.
Clear ==
    /\ pc = "prompt"
    /\ conversation' = <<>>
    /\ lastCommand' = "/clear"
    /\ UNCHANGED <<impl, model, contextWarning, pc, request, sdkPrompt,
                   responseMessages, pendingCalls, running, executed, step,
                   requests, nextCallId, turnInfo>>
    /\ UNCHANGED <<ctxVars, toolVars, estVars, permVars>>

\* part_000:70-86: the conversation as sent to the Anthropic API.  A
\* message whose first part is a tool_result is rebuilt as a user message
\* of {type, tool_use_id, content} parts.
toAnthropicMessages(history) ==
    [i \in 1..Len(history) |->
        LET m == history[i]
        IN IF m.isArray /\ Len(m.parts) > 0 /\ m.parts[1].type = "tool_result"
           THEN PartsMsg("user",
                    [j \in 1..Len(m.parts) |->
                        ToolResultPart("tool_result", m.parts[j].toolCallId,
                                       EmptyStr, m.parts[j].result, FALSE)])
           ELSE m]

\* part_000:35-94: runAgent pushes the user message and sends the request.
LegacyRunAgentWithin(limit) ==
    /\ impl = "legacy"
    /\ pc = "prompt"
    /\ requests < limit
    /\ \E userMessage \in UserTexts :
        /\ conversation' = Append(conversation, TextMsg("user", userMessage))
        /\ request' = toAnthropicMessages(conversation')
    /\ step' = 0
    /\ requests' = requests + 1
    /\ pc' = "awaiting-model"
    /\ UNCHANGED <<impl, model, contextWarning, lastCommand, sdkPrompt, responseMessages, pendingCalls, running,
                   executed, nextCallId, turnInfo>>
    /\ UNCHANGED <<ctxVars, toolVars, estVars, permVars>>

LegacyRunAgent == LegacyRunAgentWithin(MaxRequests)

\* part_000:111-120, 142-143: a final message without tool_use blocks.
LegacyFinalText ==
    /\ impl = "legacy"
    /\ pc = "awaiting-model"
    /\ conversation' = Append(conversation, PartsMsg("assistant", <<TextPart(Filler(12))>>))
    /\ Returned
    /\ UNCHANGED <<impl, model, contextWarning, lastCommand, requests, nextCallId>>
    /\ UNCHANGED <<ctxVars, toolVars, estVars, permVars>>

\* part_000:111-121: a final message with n tool_use blocks.
LegacyToolCallsWithin(limit, lists) ==
    /\ impl = "legacy"
    /\ pc = "awaiting-model"
    /\ requests < limit
    /\ \E names \in lists :
        /\ pendingCalls' = NewCalls(names)
        /\ executed' = [k \in 1..Len(names) |-> NotRun]
        /\ conversation' = Append(conversation,
              PartsMsg("assistant",
                  [k \in 1..Len(names) |->
                      ToolCallPart("tool_use", nextCallId + k - 1, Str(names[k]),
                                   Filler(20))]))
        /\ nextCallId' = nextCallId + Len(names)
    /\ pc' = "awaiting-tools"
    /\ UNCHANGED <<impl, model, contextWarning, lastCommand, request, sdkPrompt, responseMessages, running, step,
                   requests, turnInfo>>
    /\ UNCHANGED <<ctxVars, toolVars, estVars, permVars>>

LegacyToolCalls == LegacyToolCallsWithin(MaxRequests, CallNameLists)

\* part_000:123-125: "await executeTool(...)" inside the for loop: the next
\* block is executed when the one before it has returned.
LegacyToolStart ==
    /\ impl = "legacy"
    /\ pc = "awaiting-tools"
    /\ running = {}
    /\ NotStarted # {}
    /\ running' = {CHOOSE k \in NotStarted : \A j \in NotStarted : k <= j}
    /\ UNCHANGED <<impl, model, contextWarning, lastCommand, conversation, pc, request, sdkPrompt, responseMessages,
                   pendingCalls, executed, step, requests, nextCallId, turnInfo>>
    /\ UNCHANGED <<ctxVars, toolVars, estVars, permVars>>

\* part_000:125-135: executeTool returns.
LegacyToolReturnWith(behavioursAt) ==
    /\ impl = "legacy"
    /\ pc = "awaiting-tools"
    /\ \E k \in running : ToolReturns(k, behavioursAt[k])
    /\ UNCHANGED <<impl, model, contextWarning, lastCommand, conversation, pc, request, sdkPrompt, responseMessages,
                   pendingCalls, step, requests, nextCallId, turnInfo>>
    /\ UNCHANGED <<ctxVars, toolVars, estVars, permVars>>

LegacyToolReturn == LegacyToolReturnWith(BehavioursAt)

\* part_000:131-135: the part pushed for a call: type, tool_use_id and
\* content; the isError of the ToolResult is not copied.
legacyToolResult(call, result) ==
    ToolResultPart("tool_result", call.id, EmptyStr, result.output, FALSE)

\* part_000:138-139 and 66-94: the tool results are pushed as one user
\* message and the next request is sent.
LegacyToolsResolve ==
    /\ impl = "legacy"
    /\ pc = "awaiting-tools"
    /\ AllExecuted
    /\ conversation' = Append(conversation,
          PartsMsg("user",
              [k \in 1..Len(pendingCalls) |->
                  legacyToolResult(pendingCalls[k], executed[k])]))
    /\ request' = toAnthropicMessages(conversation')
    /\ requests' = requests + 1
    /\ step' = step + 1
    /\ pc' = "awaiting-model"
    /\ UNCHANGED <<impl, model, contextWarning, lastCommand, sdkPrompt, responseMessages, nextCallId, turnInfo,
                   pendingCalls, running, executed>>
    /\ UNCHANGED <<ctxVars, toolVars, estVars, permVars>>

\* part_000:88-111: the stream fails; runAgent throws.
LegacyStreamError ==
    /\ impl = "legacy"
    /\ pc = "awaiting-model"
    /\ Returned
    /\ UNCHANGED <<impl, model, contextWarning, lastCommand, conversation, requests, nextCallId>>
    /\ UNCHANGED <<ctxVars, toolVars, estVars, permVars>>

Next ==
    \/ RunAgent
    \/ SummaryReturns
    \/ SdkFinalText
    \/ SdkToolCalls
    \/ SdkToolStart
    \/ SdkToolReturn
    \/ SdkToolsResolve
    \/ SdkStreamError
    \/ Clear
    \/ LegacyRunAgent
    \/ LegacyFinalText
    \/ LegacyToolCalls
    \/ LegacyToolStart
    \/ LegacyToolReturn
    \/ LegacyToolsResolve
    \/ LegacyStreamError

Spec == Init /\ [][Next]_vars

-----------------------------------------------------------------------------
(* Long turns: the same loops with one tool call per step and short tool    *)
(* results, for as many steps as the step cap of agent.ts.                  *)

MaxCapRequests == 21
MaxCapTurns == 1

CapCallLists == {<<"read">>}
CapBehavioursAt == [k \in 1..MaxCalls |-> {b \in ToolBehaviours : b.kind = "rejects"}]

\* The user turns a conversation holds.
UserTurns(history) ==
    Cardinality({i \in 1..Len(history) :
                    history[i].role = "user" /\ ~history[i].isArray})

CapRunAgent ==
    /\ UserTurns(conversation) < MaxCapTurns
    /\ RunAgentWithin(MaxCapRequests)

CapSdkToolCalls == SdkToolCallsWithin(MaxCapRequests, CapCallLists)

CapSdkToolReturn == SdkToolReturnWith(CapBehavioursAt)

CapLegacyRunAgent ==
    /\ UserTurns(conversation) < MaxCapTurns
    /\ LegacyRunAgentWithin(MaxCapRequests)

CapLegacyToolCalls == LegacyToolCallsWithin(MaxCapRequests, CapCallLists)

CapLegacyToolReturn == LegacyToolReturnWith(CapBehavioursAt)

CapNext ==
    \/ CapRunAgent
    \/ SdkFinalText
    \/ CapSdkToolCalls
    \/ SdkToolStart
    \/ CapSdkToolReturn
    \/ SdkToolsResolve
    \/ SdkStreamError
    \/ CapLegacyRunAgent
    \/ LegacyFinalText
    \/ CapLegacyToolCalls
    \/ LegacyToolStart
    \/ CapLegacyToolReturn
    \/ LegacyToolsResolve
    \/ LegacyStreamError

SpecCap == Init /\ [][CapNext]_vars

-----------------------------------------------------------------------------
(* The REPL of index.ts with its commands /exit and /model.                 *)

\* index.ts:374-377 and 494-498 "/exit": rl.close() emits "close", and the
\* handler registered on rl (index.ts:558-561) calls process.exit(0).
ExitCommand ==
    /\ pc = "prompt"
    /\ pc' = "exited"
    /\ lastCommand' = "/exit"
    /\ UNCHANGED <<impl, model, contextWarning, conversation, request, sdkPrompt,
                   responseMessages, pendingCalls, running, executed, step,
                   requests, nextCallId, turnInfo>>
    /\ UNCHANGED <<ctxVars, toolVars, estVars, permVars>>

\* index.ts:499-501 "/model": the handler calls rl.close() before
\* selectModel().  close() emits "close" synchronously and the handler
\* registered on rl (index.ts:558-561) calls process.exit(0): selectModel
\* and the second prompt loop (index.ts:501-545) are not reached.
\* part_001:62-96 and 127-134: the REPL of the older loop knows no /model;
\* handleCommand returns "continue" and the prompt is shown again.
ModelCommand ==
    /\ pc = "prompt"
    /\ pc' = IF impl = "sdk" THEN "exited" ELSE "prompt"
    /\ lastCommand' = "/model"
    /\ UNCHANGED <<impl, model, contextWarning, conversation, request, sdkPrompt,
                   responseMessages, pendingCalls, running, executed, step,
                   requests, nextCallId, turnInfo>>
    /\ UNCHANGED <<ctxVars, toolVars, estVars, permVars>>

ReplNext ==
    \/ Next
    \/ ExitCommand
    \/ ModelCommand

SpecRepl == Init /\ [][ReplNext]_vars

-----------------------------------------------------------------------------
(* Turns that end a little above 70% of the usable context: every tool      *)
(* returns 175,200 characters, 43,800 estimated tokens, where 0.70 of the   *)
(* usable context of o1-mini (62,464) is 43,724.8.                          *)

WarnBehavioursAt ==
    [k \in 1..MaxCalls |->
        {[kind |-> "returns", message |-> EmptyStr,
          result |-> [output |-> Filler(175200), isError |-> FALSE]]}]

WarnSdkToolReturn == SdkToolReturnWith(WarnBehavioursAt)

WarnLegacyToolReturn == LegacyToolReturnWith(WarnBehavioursAt)

WarnNext ==
    \/ RunAgent
    \/ SummaryReturns
    \/ SdkFinalText
    \/ SdkToolCalls
    \/ SdkToolStart
    \/ WarnSdkToolReturn
    \/ SdkToolsResolve
    \/ SdkStreamError
    \/ Clear
    \/ LegacyRunAgent
    \/ LegacyFinalText
    \/ LegacyToolCalls
    \/ LegacyToolStart
    \/ WarnLegacyToolReturn
    \/ LegacyToolsResolve
    \/ LegacyStreamError

SpecWarn == Init /\ [][WarnNext]_vars

-----------------------------------------------------------------------------
(* Tool invocations.  A call of execute runs up to its next await; what it *)
(* awaits completes in a later step, and other invocations, timers and     *)
(* answers take their steps in between.                                    *)

\* execute is called: the invocation joins the ones of the session.
Begin(inv) ==
    /\ Len(invocations) < MaxInvocations
    /\ invocations' = Append(invocations, inv)

\* The invocation k goes on to inv; the others stay as they are.
Continue(k, inv) == invocations' = [invocations EXCEPT ![k] = inv]

\* The invocations that stand at pc.
At(pc_) == {k \in DOMAIN invocations : invocations[k].pc = pc_}

\* bash.ts:21  "if (isDangerousCommand(command))"
bashNeedsPermission(command) == isDangerousCommand(command)

\* read.ts:163  "if (fileExists)"
writeNeedsPermission(fileExists) == fileExists

\* bash.ts:31-54 and 113-119: the process is spawned and the timer is set.
spawned(inv) ==
    [inv EXCEPT !.spawned = TRUE, !.proc = "running", !.timer = TRUE,
                !.pc = "child"]

\* read.ts:183-188: the result of the write tool; it carries no isError.
\* A content of the model is one line of ASCII text.
writeResult(path, content) ==
    [output |-> "Successfully wrote 1 lines (" \o ToString(Len(Render(content)))
                    \o " bytes) to " \o path,
     isError |-> FALSE]

\* bash.ts:246-250: the result of the edit tool; it carries no isError.
editResult(path, replacedCount, diff) ==
    [output |-> "Successfully edited " \o path \o "\nReplaced "
                    \o ToString(replacedCount) \o " occurrence(s)\n\n" \o diff,
     isError |-> FALSE]

\* The tool returns result.
Return(inv, result) == [inv EXCEPT !.pc = "returned", !.result = result]

\* The continuation of a tool after askPermission has returned allowed: the
\* denial is returned (bash.ts:23-28, 236-241, read.ts:168-173), the bash tool
\* spawns (bash.ts:31-47), the write tool calls fs.mkdir (read.ts:178) and the
\* edit tool fs.writeFile (bash.ts:244).
AfterPermission(inv, allowed) ==
    IF ~allowed THEN Return(inv, PermissionDenied)
    ELSE IF inv.tool = "bash" THEN spawned(inv)
    ELSE IF inv.tool = "write" THEN [inv EXCEPT !.pc = "fs.mkdir"]
    ELSE [inv EXCEPT !.pc = "fs.writeFile"]

\* permission.ts:35-58: askPermission up to the prompt.  A key of the record
\* returns true at once and the tool goes on; otherwise the question is put.
AskPermission(inv, action, details) ==
    LET key == permissionKey(action, details)
        asking == [inv EXCEPT !.asked = TRUE, !.key = key]
    IN IF key \in approvedPatterns
       THEN AfterPermission([asking EXCEPT !.allowed = "yes"], TRUE)
       ELSE [asking EXCEPT !.prompted = TRUE, !.pc = "rl.question"]

\* bash.ts:16-54: the bash tool is called and runs up to the prompt or the
\* spawn.
InvokeBash ==
    /\ \E command \in Commands :
        LET inv == [NoInvocation EXCEPT !.tool = "bash", !.command = command,
                                        !.dangerous = isDangerousCommand(command)]
        IN Begin(IF bashNeedsPermission(command)
                 THEN AskPermission(inv, "bash", "Execute command: " \o command)
                 ELSE AfterPermission(inv, TRUE))
    /\ UNCHANGED <<approvedPatterns, fs>>
    /\ UNCHANGED <<agentVars, ctxVars, estVars, permVars>>

\* read.ts:143-156: the write tool is called and awaits fs.access.
InvokeWrite ==
    /\ \E path \in Paths, word \in Words :
        Begin([NoInvocation EXCEPT !.tool = "write", !.path = path,
                                   !.newContent = <<word>>, !.pc = "fs.access"])
    /\ UNCHANGED <<approvedPatterns, fs>>
    /\ UNCHANGED <<agentVars, ctxVars, estVars, permVars>>

\* read.ts:154-178: fs.access has returned or thrown.  The tool asks when the
\* file was there and goes on to fs.mkdir when allowed or when it was not.
AccessReturns ==
    /\ \E k \in At("fs.access") :
        LET inv == invocations[k]
            fileExists == fs[inv.path] # Absent
            checked == [inv EXCEPT !.fileExists = fileExists]
        IN Continue(k, IF writeNeedsPermission(fileExists)
                       THEN AskPermission(checked, "write",
                                "Overwrite existing file: " \o inv.path)
                       ELSE AfterPermission(checked, TRUE))
    /\ UNCHANGED <<approvedPatterns, fs>>
    /\ UNCHANGED <<agentVars, ctxVars, estVars, permVars>>

\* read.ts:178-181: fs.mkdir has returned; the tool calls fs.writeFile.
MkdirReturns ==
    /\ \E k \in At("fs.mkdir") :
        Continue(k, [invocations[k] EXCEPT !.pc = "fs.writeFile"])
    /\ UNCHANGED <<approvedPatterns, fs>>
    /\ UNCHANGED <<agentVars, ctxVars, estVars, permVars>>

\* What a file holds after data was written at its start: the data, and what
\* the file held beyond the data.  The words have one length, so that the
\* bytes of a word are replaced by those of a word.
Overlay(content, data) == data \o SubSeq(content, Len(data) + 1, Len(content))

\* read.ts:181 and bash.ts:244: fs.writeFile opens the file (flag "w"): the
\* file is created or truncated.
WriteFileOpens ==
    /\ \E k \in At("fs.writeFile") :
        LET inv == invocations[k]
        IN /\ ~inv.opened
           /\ fs' = [fs EXCEPT ![inv.path] = <<>>]
           /\ Continue(k, [inv EXCEPT !.opened = TRUE])
    /\ UNCHANGED approvedPatterns
    /\ UNCHANGED <<agentVars, ctxVars, estVars, permVars>>

\* read.ts:181 and bash.ts:244: fs.writeFile writes the content at the start
\* of the file it has opened.
WriteFileWrites ==
    /\ \E k \in At("fs.writeFile") :
        LET inv == invocations[k]
        IN /\ inv.opened
           /\ ~inv.wrote
           /\ fs' = [fs EXCEPT ![inv.path] = Overlay(fs[inv.path], inv.newContent)]
           /\ Continue(k, [inv EXCEPT !.wrote = TRUE])
    /\ UNCHANGED approvedPatterns
    /\ UNCHANGED <<agentVars, ctxVars, estVars, permVars>>

\* read.ts:181-188 and bash.ts:244-250: fs.writeFile has returned and the tool
\* returns its result.
WriteFileReturns ==
    /\ \E k \in At("fs.writeFile") :
        LET inv == invocations[k]
        IN /\ inv.wrote
           /\ Continue(k, Return(inv,
                  IF inv.tool = "write"
                  THEN writeResult(inv.path, inv.newContent)
                  ELSE editResult(inv.path, inv.replacedCount, inv.diff)))
    /\ UNCHANGED <<approvedPatterns, fs>>
    /\ UNCHANGED <<agentVars, ctxVars, estVars, permVars>>

Occurrences(content, word) ==
    Cardinality({i \in 1..Len(content) : content[i] = word})

\* bash.ts:216-218: replace the first occurrence, or all of them.
Replace(content, old, new, all) ==
    LET first == CHOOSE i \in 1..Len(content) :
                    content[i] = old /\ \A k \in 1..(i - 1) : content[k] # old
    IN [i \in 1..Len(content) |->
           IF content[i] = old /\ (all \/ i = first) THEN new ELSE content[i]]

\* bash.ts:221-228, createTwoFilesPatch of the diff package, for texts of
\* one line without a final newline.
createTwoFilesPatch(path, content, newContent) ==
    "Index: " \o path
      \o "\n===================================================================\n"
      \o "--- " \o path \o "\toriginal\n+++ " \o path \o "\tmodified\n"
      \o (IF content = newContent THEN ""
          ELSE "@@ -1,1 +1,1 @@\n-" \o Render(content)
                 \o "\n\\ No newline at end of file\n+" \o Render(newContent)
                 \o "\n\\ No newline at end of file\n")

\* bash.ts:175-197: the lines of the file that resemble the text looked for.
\* A line of words of the model resembles no other word; the one line of an
\* empty file does (its first 20 characters, none, are part of every text).
similarLinesHint(content) ==
    IF content = <<>> THEN "\n\nSimilar lines found:\n  Line 1: " ELSE ""

\* bash.ts:156-170: the edit tool is called and awaits fs.readFile.
InvokeEdit ==
    /\ \E path \in Paths, old \in Words, new \in Words, all \in BOOLEAN :
        Begin([NoInvocation EXCEPT !.tool = "edit", !.path = path, !.old = old,
                                   !.new = new, !.all = all, !.pc = "fs.readFile"])
    /\ UNCHANGED <<approvedPatterns, fs>>
    /\ UNCHANGED <<agentVars, ctxVars, estVars, permVars>>

\* bash.ts:170-244 and 251-257: fs.readFile has returned the content or
\* thrown; the tool returns an error, asks, or (the key being in the record)
\* calls fs.writeFile with the content it has computed.
ReadFileReturns ==
    /\ \E k \in At("fs.readFile") :
        LET content == fs[invocations[k].path]
            inv == [invocations[k] EXCEPT !.fileExists = content # Absent]
            failed(output) == Return(inv, [output |-> output, isError |-> TRUE])
        IN Continue(k,
              IF content = Absent
              THEN failed("Error: File not found: " \o inv.path)
              ELSE IF Occurrences(content, inv.old) = 0
              THEN failed("Error: Could not find the specified text in " \o inv.path
                     \o similarLinesHint(content)
                     \o "\n\nMake sure the old_string matches exactly, "
                     \o "including whitespace and indentation.")
              ELSE IF Occurrences(content, inv.old) > 1 /\ ~inv.all
              THEN failed("Error: Found " \o ToString(Occurrences(content, inv.old))
                     \o " occurrences of the text. Set replace_all=true to replace "
                     \o "all, or provide more context to make the match unique.")
              ELSE LET newContent == Replace(content, inv.old, inv.new, inv.all)
                       diff == createTwoFilesPatch(inv.path, content, newContent)
                   IN AskPermission(
                          [inv EXCEPT !.newContent = newContent, !.diff = diff,
                                      !.replacedCount =
                                          IF inv.all THEN Occurrences(content, inv.old)
                                          ELSE 1],
                          "edit", "Edit file: " \o inv.path \o "\n\n" \o diff))
    /\ UNCHANGED <<approvedPatterns, fs>>
    /\ UNCHANGED <<agentVars, ctxVars, estVars, permVars>>

\* permission.ts:45-72: the user enters a line.  Every interface created by
\* a pending askPermission reads the same standard input: each question
\* callback is called with the line, adds its key when the answer says
\* always, and resolves; each tool goes on.
Answer ==
    /\ At("rl.question") # {}
    /\ \E answer \in Answers :
        LET normalized == normalizeAnswer(answer)
            allowed == answerAllows(normalized)
        IN /\ approvedPatterns' =
                  IF answerRemembers(normalized)
                  THEN approvedPatterns \cup {invocations[k].key : k \in At("rl.question")}
                  ELSE approvedPatterns
           /\ invocations' =
                  [k \in DOMAIN invocations |->
                      IF k \in At("rl.question")
                      THEN AfterPermission(
                               [invocations[k] EXCEPT
                                    !.allowed = IF allowed THEN "yes" ELSE "no",
                                    !.answer = answer], allowed)
                      ELSE invocations[k]]
    /\ UNCHANGED fs
    /\ UNCHANGED <<agentVars, ctxVars, estVars, permVars>>

\* bash.ts:77-110: the text built by the close handler.  The outputs of the
\* model are shorter than the 30000 characters at which it truncates.
closeResult(stdout, stderr, code) ==
    LET joined == IF stdout # "" /\ stderr # "" THEN stdout \o "\n" \o stderr
                  ELSE stdout \o stderr
        text == IF joined # "" THEN joined
                ELSE IF code = 0
                     THEN "(Command completed successfully with no output)"
                     ELSE "(No output)"
    IN [output |-> IF code # 0 THEN text \o "\n\nExit code: " \o ToString(code)
                   ELSE text,
        isError |-> code # 0]

\* Mutant of Resolve: every call of resolve delivers its result.
Resolve_everyCall(inv, result) ==
    [inv EXCEPT !.resolved = TRUE, !.pc = "returned", !.result = result]

\* The promise of the bash tool resolves once; later resolve calls do nothing.
Resolve(inv, result) ==
    IF inv.resolved THEN inv
    ELSE [inv EXCEPT !.resolved = TRUE, !.pc = "returned", !.result = result]

\* bash.ts:77-110: the process of an invocation closes.
BashClose ==
    /\ \E k \in DOMAIN invocations :
        /\ invocations[k].proc \in {"running", "killed"}
        /\ \E stdout \in {"", "out"}, stderr \in {"", "err"}, code \in ExitCodes :
            Continue(k, Resolve([invocations[k] EXCEPT !.proc = "closed"],
                                closeResult(stdout, stderr, code)))
    /\ UNCHANGED <<approvedPatterns, fs>>
    /\ UNCHANGED <<agentVars, ctxVars, estVars, permVars>>

\* bash.ts:70-75: the process of an invocation could not be started.
BashError ==
    /\ \E k \in DOMAIN invocations :
        /\ invocations[k].proc = "running"
        /\ ~invocations[k].resolved
        /\ Continue(k, Resolve([invocations[k] EXCEPT !.proc = "failed"],
                               [output |-> "Error executing command: spawn /bin/bash ENOENT",
                                isError |-> TRUE]))
    /\ UNCHANGED <<approvedPatterns, fs>>
    /\ UNCHANGED <<agentVars, ctxVars, estVars, permVars>>

\* bash.ts:113-119: the timer of an invocation fires, whether or not the
\* invocation has returned.
BashTimeout ==
    /\ \E k \in DOMAIN invocations :
        LET inv == invocations[k]
        IN /\ inv.timer
           /\ Continue(k, Resolve(
                  [inv EXCEPT !.timer = FALSE,
                              !.kills = inv.kills + 1,
                              !.firedWhile = inv.proc,
                              !.proc = IF inv.proc = "running" THEN "killed"
                                       ELSE inv.proc],
                  [output |-> "Command timed out after 120000ms", isError |-> TRUE]))
    /\ UNCHANGED <<approvedPatterns, fs>>
    /\ UNCHANGED <<agentVars, ctxVars, estVars, permVars>>

ToolsInit ==
    /\ ToolsIdle
    /\ EstimatorIdle
    /\ PermissionIdle
    /\ AgentIdle
    /\ conv = <<>>
    /\ ctxModel = "o1-mini"
    /\ pruned1 = NoPrune
    /\ pruned2 = NoPrune
    /\ processed = NoProcess
    /\ summarized = NoSummary
    /\ ctxOutcome = NoOutcome
    /\ cpc = "start"

ToolsNext ==
    \/ InvokeBash
    \/ InvokeWrite
    \/ AccessReturns
    \/ MkdirReturns
    \/ InvokeEdit
    \/ ReadFileReturns
    \/ Answer
    \/ WriteFileOpens
    \/ WriteFileWrites
    \/ WriteFileReturns
    \/ BashClose
    \/ BashError
    \/ BashTimeout

SpecTools == ToolsInit /\ [][ToolsNext]_vars

\* The invocation k as it was before the step; one that starts in the step
\* was not there.
Before(k) == IF k \in DOMAIN invocations THEN invocations[k] ELSE NoInvocation

\* C2: no destructive effect without approval.  In every step: a dangerous
\* command is spawned only in an invocation for which askPermission returned
\* true; the write tool opens (and so empties) a file that is already there
\* only when askPermission returned true for the invocation, and the edit
\* tool opens the file only when it did; a file changes only by such a write;
\* and an invocation for which askPermission returned false has spawned
\* nothing, has opened no file and has returned the error-flagged result
\* "Permission denied by user".
C2_NoEffectWithoutApproval ==
    [][ /\ \A k \in DOMAIN invocations' :
            LET inv == invocations'[k]
                opens == inv.opened /\ ~Before(k).opened
            IN /\ (inv.spawned /\ inv.dangerous) => inv.allowed = "yes"
               /\ (inv.tool = "write" /\ opens /\ fs[inv.path] # Absent)
                     => inv.allowed = "yes"
               /\ (inv.tool = "edit" /\ opens) => inv.allowed = "yes"
               /\ inv.allowed = "no" =>
                     /\ ~inv.spawned
                     /\ ~inv.opened
                     /\ ~inv.wrote
                     /\ inv.pc = "returned"
                     /\ inv.result = PermissionDenied
                     /\ inv.result.isError
        /\ fs' # fs =>
              \E k \in DOMAIN invocations :
                  /\ invocations[k].tool \in {"write", "edit"}
                  /\ invocations[k].pc = "fs.writeFile"
                  /\ invocations'[k] # invocations[k] ]_vars

-----------------------------------------------------------------------------
(* Context-manager harness: the public operations of ContextManager applied *)
(* to conversations drawn from a bounded set.                               *)

MaxCtxTurns == 4

\* Tool outputs of a turn, in call order.  180000 characters estimate to
\* 45000 tokens, 80000 to 20000 (PRUNE_MINIMUM), 79997 to 19999.
ResultShapes ==
    { <<>>,
      << [result |-> Filler(180000), isError |-> TRUE] >>,
      << [result |-> Filler(80000), isError |-> FALSE] >>,
      << [result |-> Filler(79997), isError |-> FALSE] >>,
      << [result |-> Filler(80000), isError |-> FALSE],
         [result |-> Filler(80000), isError |-> TRUE] >>,
      << [result |-> PRUNED_PLACEHOLDER, isError |-> FALSE],
         [result |-> Filler(6), isError |-> FALSE] >> }

\* The role of the message that carries tool-result parts: "tool" in the
\* messages the AI SDK returns, "user" in the data model of the design.
CarrierRoles == {"tool", "user"}

CtxModels == {"o1-mini", "claude-sonnet-4-20250514"}


\* The messages of turn t: the user's text and, when the model called
\* tools, the assistant message with the calls, the message carrying the
\* results and the closing assistant text.
TurnMessages(t, shape, carrier) ==
    IF shape = <<>>
    THEN << TextMsg("user", Filler(8)) >>
    ELSE << TextMsg("user", Filler(8)),
            PartsMsg("assistant",
                [k \in 1..Len(shape) |->
                    ToolCallPart("tool-call", 10 * t + k, Str("read"), Filler(20))]),
            PartsMsg(carrier,
                [k \in 1..Len(shape) |->
                    ToolResultPart("tool-result", 10 * t + k, Str("read"),
                                   shape[k].result, shape[k].isError)]),
            TextMsg("assistant", Filler(12)) >>

RECURSIVE BuildConversation(_, _, _)
BuildConversation(shapes, t, carrier) ==
    IF t > Len(shapes) THEN <<>>
    ELSE TurnMessages(t, shapes[t], carrier)
            \o BuildConversation(shapes, t + 1, carrier)


CtxInit ==
    /\ \E n \in 1..MaxCtxTurns :
       \E shapes \in [1..n -> ResultShapes] :
       \E carrier \in CarrierRoles :
            conv = BuildConversation(shapes, 1, carrier)
    /\ ctxModel \in CtxModels
    /\ pruned1 = NoPrune
    /\ pruned2 = NoPrune
    /\ processed = NoProcess
    /\ summarized = NoSummary
    /\ ctxOutcome = NoOutcome
    /\ cpc = "start"
    /\ AgentIdle
    /\ ToolsIdle
    /\ EstimatorIdle
    /\ PermissionIdle

CtxPrune ==
    /\ cpc = "start"
    /\ pruned1' = pruneToolOutputs(conv)
    /\ cpc' = "pruned"
    /\ UNCHANGED <<conv, ctxModel, pruned2, processed, summarized, ctxOutcome>>
    /\ UNCHANGED <<agentVars, toolVars, estVars, permVars>>

CtxPruneAgain ==
    /\ cpc = "pruned"
    /\ pruned2' = pruneToolOutputs(pruned1.messages)
    /\ cpc' = "repruned"
    /\ UNCHANGED <<conv, ctxModel, pruned1, processed, summarized, ctxOutcome>>
    /\ UNCHANGED <<agentVars, toolVars, estVars, permVars>>

CtxSummarize ==
    /\ cpc = "repruned"
    /\ \E outcome \in SummaryOutcomes :
        /\ summarized' = summarize(conv, outcome)
        /\ ctxOutcome' = outcome
    /\ cpc' = "summarized"
    /\ UNCHANGED <<conv, ctxModel, pruned1, pruned2, processed>>
    /\ UNCHANGED <<agentVars, toolVars, estVars, permVars>>

CtxProcess ==
    /\ cpc = "repruned"
    /\ \E outcome \in SummaryOutcomes :
        /\ processed' = processMessages(conv, ctxModel, outcome)
        /\ ctxOutcome' = outcome
    /\ cpc' = "processed"
    /\ UNCHANGED <<conv, ctxModel, pruned1, pruned2, summarized>>
    /\ UNCHANGED <<agentVars, toolVars, estVars, permVars>>

CtxNext == CtxPrune \/ CtxPruneAgain \/ CtxSummarize \/ CtxProcess

SpecCtx == CtxInit /\ [][CtxNext]_vars

-----------------------------------------------------------------------------
(* Estimator harness: estimateTokens applied to texts of bounded length.    *)

MaxTextLen == 64

\* Texts of every length up to MaxTextLen, and some literal ones.
Texts ==
    {Filler(n) : n \in 0..MaxTextLen}
        \cup {Str("a"), Str("ab"), Str("abc"), Str("abcd"), Str("abcde"),
              [s |-> "ab", pad |-> 4]}

EstInit ==
    /\ estText \in Texts
    /\ estTokens = 0
    /\ estDone = FALSE
    /\ PermissionIdle
    /\ AgentIdle
    /\ ToolsIdle
    /\ conv = <<>>
    /\ ctxModel = "o1-mini"
    /\ pruned1 = NoPrune
    /\ pruned2 = NoPrune
    /\ processed = NoProcess
    /\ summarized = NoSummary
    /\ ctxOutcome = NoOutcome
    /\ cpc = "start"

EstimateTokens ==
    /\ ~estDone
    /\ estTokens' = estimateTokens(estText)
    /\ estDone' = TRUE
    /\ UNCHANGED estText
    /\ UNCHANGED <<agentVars, ctxVars, toolVars, permVars>>

SpecEstimate == EstInit /\ [][EstimateTokens]_vars

-----------------------------------------------------------------------------
(* askPermission called directly.  The function is exported by              *)
(* src/permission.ts and takes any two strings; the harness calls it with   *)
(* actions and details that do and do not contain a colon.                  *)

\* Calls of askPermission per session.
MaxPermCalls == 2

PermActions == {"bash", "bash:Execute command"}
PermDetails == {"Execute command: ls", " ls"}

PermInit ==
    /\ PermissionIdle
    /\ AgentIdle
    /\ ToolsIdle
    /\ EstimatorIdle
    /\ conv = <<>>
    /\ ctxModel = "o1-mini"
    /\ pruned1 = NoPrune
    /\ pruned2 = NoPrune
    /\ processed = NoProcess
    /\ summarized = NoSummary
    /\ ctxOutcome = NoOutcome
    /\ cpc = "start"

\* permission.ts:35-58: askPermission(action, details) up to the prompt.  A
\* key of the record returns true at once; otherwise the question is put.
PermAsk ==
    /\ Len(permLog) < MaxPermCalls
    /\ \E action \in PermActions, details \in PermDetails :
        LET key == permissionKey(action, details)
            approved == key \in approvedPatterns
        IN permLog' = Append(permLog,
                [action |-> action, details |-> details, key |-> key,
                 prompted |-> ~approved, answer |-> "",
                 result |-> IF approved THEN "true" ELSE "pending"])
    /\ UNCHANGED <<agentVars, ctxVars, toolVars, estVars>>

\* The calls of askPermission whose question is open.
PermPending == {k \in DOMAIN permLog : permLog[k].result = "pending"}

\* permission.ts:57-72: the user enters a line; every open question is
\* called back with it and its askPermission resolves.
PermAnswer ==
    /\ PermPending # {}
    /\ \E answer \in Answers :
        LET normalized == normalizeAnswer(answer)
        IN /\ approvedPatterns' =
                  IF answerRemembers(normalized)
                  THEN approvedPatterns \cup {permLog[k].key : k \in PermPending}
                  ELSE approvedPatterns
           /\ permLog' =
                  [k \in DOMAIN permLog |->
                      IF k \in PermPending
                      THEN [permLog[k] EXCEPT
                               !.answer = answer,
                               !.result = IF answerAllows(normalized)
                                          THEN "true" ELSE "false"]
                      ELSE permLog[k]]
    /\ UNCHANGED <<fs, invocations>>
    /\ UNCHANGED <<agentVars, ctxVars, estVars>>

\* permission.ts:77-79: resetApprovedPatterns() empties the record.
resetApprovedPatterns ==
    /\ approvedPatterns' = {}
    /\ UNCHANGED <<fs, invocations, permLog>>
    /\ UNCHANGED <<agentVars, ctxVars, estVars>>

PermNext == PermAsk \/ PermAnswer \/ resetApprovedPatterns

SpecPerm == PermInit /\ [][PermNext]_vars

-----------------------------------------------------------------------------
(* Conversations of equal turns: every turn has one tool call, answered by  *)
(* a result of the same size.                                               *)

ScenarioTurnCounts == {1, 2, 3}
ScenarioSizes == {50000, 160000, 200000, 320000}
ScenarioModels == {"claude-sonnet-4-20250514", "o1", "o1-mini"}

Scenario(n, size, carrier) ==
    BuildConversation(
        [t \in 1..n |-> << [result |-> Filler(size), isError |-> FALSE] >>],
        1, carrier)

ScenarioInit ==
    /\ \E n \in ScenarioTurnCounts, size \in ScenarioSizes, carrier \in CarrierRoles :
            conv = Scenario(n, size, carrier)
    /\ ctxModel \in ScenarioModels
    /\ pruned1 = NoPrune
    /\ pruned2 = NoPrune
    /\ processed = NoProcess
    /\ summarized = NoSummary
    /\ ctxOutcome = NoOutcome
    /\ cpc = "start"
    /\ AgentIdle
    /\ ToolsIdle
    /\ EstimatorIdle
    /\ PermissionIdle

SpecScenario == ScenarioInit /\ [][CtxNext]_vars

-----------------------------------------------------------------------------
(* Conversations at the thresholds: one user message whose estimate is at,  *)
(* just below or just above 0.70 and 0.85 of the usable context.            *)

MaxOffset == 1

ThresholdModels ==
    {"claude-sonnet-4-20250514", "gemini-2.0-flash", "gpt-4o", "o1", "o1-mini",
     "gemini-2.0-pro"}

\* The token counts around the two thresholds of a model.
ThresholdTokens(modelId) ==
    LET usable == getUsableContext(modelId)
    IN {(usable * 7) \div 10 + d : d \in (0 - MaxOffset)..MaxOffset}
         \cup {(usable * 85) \div 100 + d : d \in (0 - MaxOffset)..MaxOffset}

\* A conversation of one user message estimated at the given count: the
\* message overhead of 4 and a text of 4 characters per remaining token.
ConversationOf(tokens) == << TextMsg("user", Filler(4 * (tokens - 4))) >>

ThresholdInit ==
    /\ ctxModel \in ThresholdModels
    /\ \E tokens \in ThresholdTokens(ctxModel) : conv = ConversationOf(tokens)
    /\ pruned1 = NoPrune
    /\ pruned2 = NoPrune
    /\ processed = NoProcess
    /\ summarized = NoSummary
    /\ ctxOutcome = NoOutcome
    /\ cpc = "start"
    /\ AgentIdle
    /\ ToolsIdle
    /\ EstimatorIdle
    /\ PermissionIdle

SpecThreshold == ThresholdInit /\ [][CtxNext]_vars

-----------------------------------------------------------------------------
(* Conversations with many short tool results: a first turn of several      *)
(* steps with several calls each, every result one character long, followed *)
(* by a step with a result of 80,000 characters and one of 160,000, and two *)
(* further turns without tools.                                             *)

MaxBulkSteps == 46
MaxBulkCalls == 40

BulkSteps == {1, 2, 3, 4, MaxBulkSteps}
BulkCalls == {1, 2, 3, MaxBulkCalls}

\* One step of a turn: the assistant message with n calls and the tool
\* message with their results, each of the given size.
StepMessages(first, n, size) ==
    << PartsMsg("assistant",
            [k \in 1..n |->
                ToolCallPart("tool-call", first + k, Str("bash"), Filler(20))]),
       PartsMsg("tool",
            [k \in 1..n |->
                ToolResultPart("tool-result", first + k, Str("bash"),
                               Filler(size), FALSE)]) >>

RECURSIVE BulkStepMessages(_, _, _)
BulkStepMessages(steps, calls, from) ==
    IF from > steps THEN <<>>
    ELSE StepMessages(from * calls, calls, 1)
            \o BulkStepMessages(steps, calls, from + 1)

BulkConversation(steps, calls) ==
    << TextMsg("user", Filler(8)) >>
        \o BulkStepMessages(steps, calls, 1)
        \o StepMessages((steps + 1) * calls, 1, 80000)
        \o StepMessages((steps + 2) * calls, 1, 160000)
        \o << TextMsg("assistant", Filler(12)),
              TextMsg("user", Filler(8)), TextMsg("assistant", Filler(12)),
              TextMsg("user", Filler(8)) >>

BulkInit ==
    /\ \E steps \in BulkSteps, calls \in BulkCalls :
            conv = BulkConversation(steps, calls)
    /\ ctxModel = "claude-sonnet-4-20250514"
    /\ pruned1 = NoPrune
    /\ pruned2 = NoPrune
    /\ processed = NoProcess
    /\ summarized = NoSummary
    /\ ctxOutcome = NoOutcome
    /\ cpc = "start"
    /\ AgentIdle
    /\ ToolsIdle
    /\ EstimatorIdle
    /\ PermissionIdle

SpecBulk == BulkInit /\ [][CtxNext]_vars

-----------------------------------------------------------------------------
(* Properties of the context manager, checked under SpecCtx *)

IsToolResult(part) == part.type = "tool-result"

\* Positions <<message, part>> of the tool-result parts of a conversation.
ToolResultPositions(messages) ==
    UNION {{<<i, j>> : j \in {k \in 1..Len(messages[i].parts) :
                                 IsToolResult(messages[i].parts[k])}} :
           i \in {m \in 1..Len(messages) : messages[m].isArray}}

\* The pruning candidates: the positions the first pass marks.
Candidates(messages) ==
    LET toPrune == scanMessages(messages, Len(messages), 0, 0, <<>>)
    IN {<<toPrune[k].msgIndex, toPrune[k].partIndex>> : k \in 1..Len(toPrune)}

CandidateTokens(messages) ==
    LET toPrune == scanMessages(messages, Len(messages), 0, 0, <<>>)
    IN SumSeq([k \in 1..Len(toPrune) |-> toPrune[k].tokens])

\* Positions whose part differs between two conversations of the same shape.
ChangedPositions(before, after) ==
    {pos \in ToolResultPositions(before) :
        after[pos[1]].parts[pos[2]] # before[pos[1]].parts[pos[2]]}

SameShape(before, after) ==
    /\ Len(after) = Len(before)
    /\ \A i \in 1..Len(before) :
        /\ after[i].role = before[i].role
        /\ after[i].isArray = before[i].isArray
        /\ Len(after[i].parts) = Len(before[i].parts)

CarriesResults(msg) ==
    msg.isArray /\ \E j \in 1..Len(msg.parts) : IsToolResult(msg.parts[j])

\* The second largest element of a set of indices, 0 when there are fewer
\* than two: the messages after it are the two most recent turns.
SecondLatest(S) ==
    IF Cardinality(S) < 2 THEN 0
    ELSE LET top == CHOOSE i \in S : \A k \in S : k <= i
         IN CHOOSE i \in S \ {top} : \A k \in S \ {top} : k <= i

\* A turn starts at a message typed by the user, i.e. a user-role message
\* that does not carry tool results.
TurnStarts(messages) ==
    {i \in 1..Len(messages) : messages[i].role = "user" /\ ~CarriesResults(messages[i])}

UserRoleMessages(messages) ==
    {i \in 1..Len(messages) : messages[i].role = "user"}

UnchangedAfter(start, before, after) ==
    \A pos \in ToolResultPositions(before) :
        pos[1] > start => after[pos[1]].parts[pos[2]] = before[pos[1]].parts[pos[2]]

\* C4 as stated: pruneToolOutputs leaves every tool-result part of the two
\* most recent user turns unchanged, whichever role carries the parts.
C4_RecencyAnyCarrier ==
    cpc # "start" =>
        UnchangedAfter(SecondLatest(TurnStarts(conv)), conv, pruned1.messages)

\* C4 amended: pruneToolOutputs leaves unchanged every tool-result part that
\* comes after the second most recent user-role message; these are the parts of
\* the two most recent user turns when no user-role message carries tool
\* results.
C4_RecencyByUserRole ==
    cpc # "start" =>
        /\ UnchangedAfter(SecondLatest(UserRoleMessages(conv)), conv, pruned1.messages)
        /\ (\A i \in UserRoleMessages(conv) : ~CarriesResults(conv[i]))
            => UnchangedAfter(SecondLatest(TurnStarts(conv)), conv, pruned1.messages)

\* A prune that replaced something while a tool-role result larger than the
\* protected 40,000 tokens sits in the two most recent turns.
C4_Witness ==
    /\ cpc # "start"
    /\ pruned1.prunedCount > 0
    /\ \A i \in UserRoleMessages(conv) : ~CarriesResults(conv[i])
    /\ \E pos \in ToolResultPositions(conv) :
        /\ pos[1] > SecondLatest(TurnStarts(conv))
        /\ estimateTokens(conv[pos[1]].parts[pos[2]].result) > PRUNE_PROTECT
        /\ pruned1.messages[pos[1]].parts[pos[2]] = conv[pos[1]].parts[pos[2]]

\* C8: when the candidates' token estimates sum to less than 20,000,
\* pruneToolOutputs returns its input with prunedCount = 0, tokensSaved = 0.
C8_PruneOrNoop ==
    (cpc # "start" /\ CandidateTokens(conv) < 20000) =>
        /\ pruned1.messages = conv
        /\ pruned1.prunedCount = 0
        /\ pruned1.tokensSaved = 0

\* There are candidates, but they free less than the minimum.
C8_Witness ==
    /\ cpc # "start"
    /\ Candidates(conv) # {}
    /\ CandidateTokens(conv) < 20000
    /\ pruned1.messages = conv

\* C9: pruning the output of pruneToolOutputs returns it unchanged with
\* prunedCount = 0.
C9_PruneIdempotent ==
    cpc \in {"repruned", "summarized", "processed"} =>
        /\ pruned2.messages = pruned1.messages
        /\ pruned2.prunedCount = 0

\* The first prune replaced parts and left unpruned eligible results behind.
C9_Witness ==
    /\ cpc = "repruned"
    /\ pruned1.prunedCount > 0
    /\ pruned2.messages = pruned1.messages
    /\ \E pos \in ToolResultPositions(pruned1.messages) :
        /\ pos[1] < SecondLatest(UserRoleMessages(conv))
        /\ pruned1.messages[pos[1]].parts[pos[2]].result # PRUNED_PLACEHOLDER

\* C10: pruneToolOutputs keeps the number, order and roles of the messages
\* and the number of parts; a replaced part is a candidate and differs from
\* the original only in holding the placeholder as result; every other part
\* and every plain-text message equals the original.
C10_PruneFrame ==
    cpc # "start" =>
        /\ SameShape(conv, pruned1.messages)
        /\ \A i \in 1..Len(conv) :
            /\ ~conv[i].isArray => pruned1.messages[i] = conv[i]
            /\ \A j \in 1..Len(conv[i].parts) :
                LET old == conv[i].parts[j]
                    new == pruned1.messages[i].parts[j]
                IN IF new # old
                   THEN /\ <<i, j>> \in Candidates(conv)
                        /\ new.result = PRUNED_PLACEHOLDER
                        /\ new.toolCallId = old.toolCallId
                        /\ new.isError = old.isError
                        /\ new = [old EXCEPT !.result = PRUNED_PLACEHOLDER]
                   ELSE TRUE
        /\ ChangedPositions(conv, pruned1.messages) \subseteq Candidates(conv)

\* An error-flagged result was replaced next to parts that were kept.
C10_Witness ==
    /\ cpc # "start"
    /\ \E pos \in ChangedPositions(conv, pruned1.messages) :
        conv[pos[1]].parts[pos[2]].isError
    /\ ChangedPositions(conv, pruned1.messages) # ToolResultPositions(conv)

\* C5: processMessages follows the ordered decision procedure.  If
\* shouldPrune holds and pruning replaced a part: compacted, computed from
\* the pruned conversation, when shouldCompact holds of the pruned
\* conversation, else pruned with the pruned conversation.  Otherwise:
\* compacted, computed from the original, when shouldCompact holds of the
\* original, else none with the input unchanged.
C5_DecisionProcedure ==
    cpc = "processed" =>
        LET replacedSome == ChangedPositions(conv, pruned1.messages) # {}
        IN IF shouldPrune(conv, ctxModel) /\ replacedSome
           THEN IF shouldCompact(pruned1.messages, ctxModel)
                THEN /\ processed.action = "compacted"
                     /\ processed.messages =
                            summarize(pruned1.messages, ctxOutcome).messages
                ELSE /\ processed.action = "pruned"
                     /\ processed.messages = pruned1.messages
           ELSE IF shouldCompact(conv, ctxModel)
                THEN /\ processed.action = "compacted"
                     /\ processed.messages = summarize(conv, ctxOutcome).messages
                ELSE /\ processed.action = "none"
                     /\ processed.messages = conv

\* Pruning replaced parts, the pruned conversation is still over the
\* compaction threshold, and the summarizer failed: the result is the pruned
\* conversation, reported as compacted.
C5_Witness ==
    /\ cpc = "processed"
    /\ ~ctxOutcome.ok
    /\ processed.action = "compacted"
    /\ processed.messages = pruned1.messages
    /\ pruned1.messages # conv

\* C7: a successful summarize returns exactly three messages, user /
\* assistant / user: the fixed prompt, the summary text, the fixed
\* acknowledgment; nothing of the input is kept.
C7_CompactionCollapse ==
    (cpc = "summarized" /\ ctxOutcome.ok) =>
        /\ Len(summarized.messages) = 3
        /\ [i \in 1..3 |-> summarized.messages[i].role]
                = <<"user", "assistant", "user">>
        /\ \A i \in 1..3 : ~summarized.messages[i].isArray
        /\ summarized.messages[1].text
                = Str("What have we accomplished so far in this session?")
        /\ summarized.messages[2].text = ctxOutcome.text
        /\ summarized.messages[3].text
                = Str("Thanks for the summary. Let's continue.")
        /\ \A i \in 1..3 : \A k \in 1..Len(conv) : summarized.messages[i] # conv[k]

\* A conversation of more than three messages was summarized successfully.
C7_Witness ==
    /\ cpc = "summarized"
    /\ ctxOutcome.ok
    /\ Len(conv) > 3
    /\ Len(summarized.messages) = 3

-----------------------------------------------------------------------------
(* Properties of the agent loop, checked under Spec *)

IsCall(part) == part.type \in {"tool-call", "tool_use"}
IsResult(part) == part.type \in {"tool-result", "tool_result"}

\* The number of result parts of message m that answer call id.
AnswersIn(m, id) ==
    IF m.isArray
    THEN Cardinality({k \in 1..Len(m.parts) :
                         IsResult(m.parts[k]) /\ m.parts[k].toolCallId = id})
    ELSE 0

\* Every tool call of msgs has exactly one result, in the next message.
NoOpenToolCall(msgs) ==
    \A i \in 1..Len(msgs) : \A j \in 1..Len(msgs[i].parts) :
        IsCall(msgs[i].parts[j]) =>
            /\ i < Len(msgs)
            /\ AnswersIn(msgs[i + 1], msgs[i].parts[j].toolCallId) = 1
            /\ \A k \in 1..Len(msgs) :
                k # i + 1 => AnswersIn(msgs[k], msgs[i].parts[j].toolCallId) = 0

HasCall(msgs) ==
    \E i \in 1..Len(msgs) : \E j \in 1..Len(msgs[i].parts) : IsCall(msgs[i].parts[j])

\* C1: in every conversation sent to the model (a step of a turn, or the
\* summarizing call) every tool-call part is answered by exactly one
\* tool-result part with its identifier, in the next message.
C1_NoOpenToolCall ==
    /\ pc = "awaiting-model" => NoOpenToolCall(request)
    /\ NoOpenToolCall(turnInfo.summaryInput)

\* A first request of a later turn that carries earlier tool calls, one of
\* them with its result already pruned.
C1_Witness ==
    /\ pc = "awaiting-model"
    /\ step = 0
    /\ HasCall(request)
    /\ \E i \in 1..Len(request) : \E j \in 1..Len(request[i].parts) :
        request[i].parts[j].result = PRUNED_PLACEHOLDER

\* C3 as stated: at every model invocation of a turn of agent.ts, the first
\* request and every later step, the estimate of the conversation sent is at
\* most the usable context.
C3_WithinBudgetEveryStep ==
    (impl = "sdk" /\ pc = "awaiting-model") =>
        estimateConversationTokens(request) <= getUsableContext(model)

\* C3 amended: at the first request of a turn of agent.ts for which
\* processMessages reported none or pruned, the estimate of the conversation
\* sent is at most 0.85 x usable context, hence within the usable context.
C3_FirstRequestWithinBudget ==
    (impl = "sdk" /\ pc = "awaiting-model" /\ step = 0
        /\ turnInfo.action \in {"none", "pruned"}) =>
        /\ estimateConversationTokens(request) * 100 <= 85 * getUsableContext(model)
        /\ estimateConversationTokens(request) <= getUsableContext(model)

\* The conversation was over the pruning threshold on entry and pruning made
\* the first request smaller.
C3_Witness ==
    /\ impl = "sdk"
    /\ pc = "awaiting-model"
    /\ step = 0
    /\ turnInfo.action = "pruned"
    /\ shouldPrune(turnInfo.entry, model)
    /\ estimateConversationTokens(request) < estimateConversationTokens(turnInfo.entry)
    /\ estimateConversationTokens(request) <= getUsableContext(model)

\* C6: when the summarizing call fails, the turn proceeds to the model call
\* with the history that was handed to summarize, intact.
C6_FailedSummaryKeepsHistory ==
    (impl = "sdk" /\ pc = "awaiting-model" /\ step = 0
        /\ turnInfo.summarized /\ ~turnInfo.summaryOk) =>
        /\ request = turnInfo.summaryInput
        /\ conversation = turnInfo.summaryInput

\* C11: a failed tool execution is fed back to the model as a tool-result
\* part that carries the identifier of the call and an error flag set to
\* true: in the request that follows a step, the last message holds, for
\* every call of the step whose execution failed, such a part.
C11_ToolFailureFedBack ==
    (pc = "awaiting-model" /\ step > 0) =>
        LET last == request[Len(request)]
        IN /\ last.isArray
           /\ Len(last.parts) = Len(pendingCalls)
           /\ \A k \in 1..Len(pendingCalls) :
                executed[k].isError =>
                    /\ IsResult(last.parts[k])
                    /\ last.parts[k].toolCallId = pendingCalls[k].id
                    /\ last.parts[k].isError

\* C12: when a model request fails, the turn ends and the conversation holds
\* everything accumulated up to the failure: the user message of the turn
\* and the assistant messages and tool results of the completed steps, that
\* is, the conversation of the request that failed.  (A turn that ends
\* without appending a message is one whose request failed.)
C12_ErrorKeepsProgress ==
    [][(pc = "awaiting-model" /\ pc' = "prompt" /\ conversation' = conversation) =>
          /\ impl = "sdk" => conversation' = request
          /\ impl = "legacy" => toAnthropicMessages(conversation') = request]_vars

\* C13: the tool calls of a step are executed one at a time in the order the
\* model emitted them: at most one execution is in flight, a call is in
\* flight only when every call before it has returned, and the request that
\* follows the step ends with one message holding the results of all the
\* calls in that order.
C13_OneToolAtATime ==
    /\ Cardinality(running) <= 1
    /\ \A k \in running : \A j \in 1..(k - 1) : executed[j].done
    /\ (pc = "awaiting-model" /\ step > 0) =>
          LET last == request[Len(request)]
          IN /\ AllExecuted
             /\ last.isArray
             /\ Len(last.parts) = Len(pendingCalls)
             /\ \A k \in 1..Len(pendingCalls) :
                  /\ IsResult(last.parts[k])
                  /\ last.parts[k].toolCallId = pendingCalls[k].id

\* The calls of the last message of a conversation.
LastHasCall(history) ==
    /\ history # <<>>
    /\ \E j \in 1..Len(history[Len(history)].parts) :
          IsCall(history[Len(history)].parts[j])

\* C14 as stated: in both loops a turn makes at most 20 model steps.
C14_AtMostTwentySteps ==
    pc # "prompt" => step < maxSteps

\* C14 amended: a turn of agent.ts makes at most 20 model steps; a turn goes
\* on after an assistant message only when the message holds a tool call,
\* and a turn that returns after appending messages ends either with an
\* assistant message without tool calls or, in agent.ts at the cap of 20
\* steps, with the tool results of the 20th step (a normal return: the
\* messages of all 20 steps are appended).
C14_TurnEndsOrCapped ==
    [][/\ (impl = "sdk" /\ pc' # "prompt") => step' < maxSteps
       /\ (pc = "awaiting-model" /\ pc' = "awaiting-tools") => pendingCalls' # <<>>
       /\ (pc = "awaiting-model" /\ pc' = "prompt" /\ conversation' # conversation) =>
             /\ conversation'[Len(conversation')].role = "assistant"
             /\ ~LastHasCall(conversation')
       /\ (pc = "awaiting-tools" /\ pc' = "prompt") =>
             /\ impl = "sdk"
             /\ step = maxSteps - 1
             /\ Len(conversation') = Len(conversation) + 2 * maxSteps
             /\ conversation'[Len(conversation')].role = "tool"]_vars

\* A turn of agent.ts has returned at the cap: the conversation holds the
\* user message and the 20 assistant and 20 tool messages of the turn.
C14_Witness ==
    /\ impl = "sdk"
    /\ pc = "prompt"
    /\ Len(conversation) = 1 + 2 * maxSteps
    /\ conversation[Len(conversation)].role = "tool"

\* The answers of Answers by what the user means.
AffirmativeOnce == {"y", "Yes "}
AffirmativeAlways == {"always", "A"}

\* C15: askPermission prompts for a key that is not in the Approval Record
\* and accepts three outcomes: affirmative-once returns true and leaves the
\* record unchanged, affirmative-always returns true and inserts the key,
\* every other answer (the empty one included) returns false and leaves the
\* record unchanged.  (The record after an answer is the record before it
\* and, for always, the keys of the prompts that the line answered.)
C15_ThreeOutcomes ==
    [][\A k \in At("rl.question") :
          LET asking == invocations[k]
              inv == invocations'[k]
          IN inv.pc # "rl.question" =>
                /\ asking.key \notin approvedPatterns
                /\ asking.prompted
                /\ inv.answer \in AffirmativeOnce =>
                      /\ inv.allowed = "yes"
                      /\ inv.pc # "returned"
                      /\ approvedPatterns' = approvedPatterns
                /\ inv.answer \in AffirmativeAlways =>
                      /\ inv.allowed = "yes"
                      /\ inv.pc # "returned"
                      /\ asking.key \in approvedPatterns'
                      /\ approvedPatterns' = approvedPatterns \cup
                            {invocations[j].key : j \in At("rl.question")}
                /\ inv.answer \notin AffirmativeOnce \cup AffirmativeAlways =>
                      /\ inv.allowed = "no"
                      /\ inv.result = PermissionDenied
                      /\ approvedPatterns' = approvedPatterns]_vars

\* The empty answer has denied a request made while the record already held
\* a key from an earlier "always".
C15_Witness ==
    \E k \in DOMAIN invocations :
        /\ invocations[k].prompted
        /\ invocations[k].pc = "returned"
        /\ invocations[k].answer = ""
        /\ invocations[k].allowed = "no"
        /\ approvedPatterns # {}
        /\ invocations[k].key \notin approvedPatterns

\* The commands D for which ("bash", "Execute command: D") is remembered.
ApprovedCommands ==
    {c \in Commands : ("bash:Execute command: " \o c) \in approvedPatterns}

\* C16: approval memory.  A dangerous bash command is prompted for exactly
\* when no "always" was answered for that same command before: an "always"
\* answer adds that command and no other to the remembered ones, any other
\* answer adds none, nothing is ever forgotten, and a remembered command
\* is allowed and spawned without a prompt.
C16_ApprovalMemory ==
    [][/\ ApprovedCommands \subseteq ApprovedCommands'
       /\ \A k \in DOMAIN invocations' \ DOMAIN invocations :
             LET inv == invocations'[k]
             IN (inv.tool = "bash" /\ inv.dangerous) =>
                   /\ inv.prompted <=> inv.command \notin ApprovedCommands
                   /\ ~inv.prompted => (inv.allowed = "yes" /\ inv.spawned)
       /\ ApprovedCommands' = ApprovedCommands \cup
             {invocations[k].command :
                 k \in {j \in At("rl.question") :
                           /\ invocations[j].tool = "bash"
                           /\ invocations'[j].pc # "rl.question"
                           /\ invocations'[j].answer \in AffirmativeAlways}}]_vars

\* A remembered dangerous command runs without a prompt while another
\* dangerous command is not remembered.
C16_Witness ==
    /\ \E k \in DOMAIN invocations :
          /\ invocations[k].tool = "bash"
          /\ invocations[k].dangerous
          /\ ~invocations[k].prompted
          /\ invocations[k].spawned
          /\ invocations[k].command \in ApprovedCommands
    /\ \E c \in Commands : isDangerousCommand(c) /\ c \notin ApprovedCommands

\* The result of the tool call of turn t of a Scenario conversation: the
\* first part of the third message of the turn.
ScenarioResult(messages, t) == messages[4 * (t - 1) + 3].parts[1].result

\* C17 as stated: for 3 turns with a 50,000-character result each, on a
\* model with 200,000 tokens of context, shouldPrune is true, pruning
\* replaces the result of turn 1 only, and getStats reports 1 pruned output.
C17_ScenarioAsStated ==
    (/\ cpc # "start"
     /\ \E carrier \in CarrierRoles : conv = Scenario(3, 50000, carrier)
     /\ getModelLimits(ctxModel).context = 200000) =>
        /\ shouldPrune(conv, ctxModel)
        /\ ScenarioResult(pruned1.messages, 1) = PRUNED_PLACEHOLDER
        /\ ScenarioResult(pruned1.messages, 2) = Filler(50000)
        /\ ScenarioResult(pruned1.messages, 3) = Filler(50000)
        /\ getStats(pruned1.messages, ctxModel).prunedOutputs = 1

\* C17 amended: with 50,000-character results (12,500 tokens each)
\* shouldPrune is false, pruning returns the conversation as it is and
\* getStats reports no pruned output; with 200,000-character results in
\* tool-role messages the scenario is as described.
C17_ScenarioAsComputed ==
    (cpc # "start" /\ getModelLimits(ctxModel).context = 200000) =>
        /\ (\E carrier \in CarrierRoles : conv = Scenario(3, 50000, carrier)) =>
              /\ ~shouldPrune(conv, ctxModel)
              /\ pruned1.messages = conv
              /\ pruned1.prunedCount = 0
              /\ getStats(pruned1.messages, ctxModel).prunedOutputs = 0
        /\ conv = Scenario(3, 200000, "tool") =>
              /\ shouldPrune(conv, ctxModel)
              /\ pruned1.prunedCount = 1
              /\ ScenarioResult(pruned1.messages, 1) = PRUNED_PLACEHOLDER
              /\ ScenarioResult(pruned1.messages, 2) = Filler(200000)
              /\ ScenarioResult(pruned1.messages, 3) = Filler(200000)
              /\ getStats(pruned1.messages, ctxModel).prunedOutputs = 1

\* The scenario of the claim has been pruned and nothing was replaced.
C17_Witness ==
    /\ cpc = "pruned"
    /\ conv = Scenario(3, 50000, "tool")
    /\ getModelLimits(ctxModel).context = 200000
    /\ estimateConversationTokens(conv) > 3 * 12500
    /\ pruned1.prunedCount = 0

\* C18: for every text, estimateTokens is the number of characters divided
\* by 4, rounded up.
C18_EstimateIsCeiling ==
    estDone => estTokens = (StrLen(estText) + 3) \div 4

\* C18 as amended: for every text, estimateTokens is the number of characters
\* divided by 4 and rounded to the nearest integer, a half rounded up: the
\* estimate e satisfies 4e - 2 <= length < 4e + 2.
C18_EstimateIsRounded ==
    estDone =>
        /\ estTokens >= 0
        /\ 4 * estTokens - 2 <= StrLen(estText)
        /\ StrLen(estText) < 4 * estTokens + 2

\* A text of 5 characters was estimated: 1 token, where a ceiling gives 2.
C18_Witness ==
    /\ estDone
    /\ StrLen(estText) = 5
    /\ estTokens = 1

\* C19: when the timer of a bash invocation fires while the command is still
\* running, the process is sent a termination signal and the invocation
\* returns an error-flagged result; however the close event, the error event
\* and the timer interleave, the invocation delivers one result, which does
\* not change afterwards, and that result is error-flagged whenever the timer
\* fired before the process closed.
C19_TimeoutDeliversOneError ==
    [][\A k \in DOMAIN invocations :
          LET was == invocations[k]
              inv == invocations'[k]
          IN was.tool = "bash" =>
                /\ (was.timer /\ ~inv.timer /\ was.proc = "running")
                      => /\ inv.kills = was.kills + 1
                         /\ inv.proc = "killed"
                         /\ inv.result.isError
                         /\ inv.pc = "returned"
                /\ was.pc = "returned"
                      => /\ inv.result = was.result
                         /\ inv.pc = "returned"
                /\ inv.spawned => (inv.resolved <=> inv.pc = "returned")
                /\ (inv.firedWhile = "running" /\ inv.resolved)
                      => inv.result.isError]_vars

\* The timer fired while the command was running, and the process closed
\* afterwards: the result is still that of the timeout.
C19_Witness ==
    \E k \in DOMAIN invocations :
        /\ invocations[k].tool = "bash"
        /\ invocations[k].firedWhile = "running"
        /\ invocations[k].proc = "closed"
        /\ invocations[k].kills = 1
        /\ invocations[k].pc = "returned"
        /\ invocations[k].result =
              [output |-> "Command timed out after 120000ms", isError |-> TRUE]

\* The eligible tool-result parts that do not hold the placeholder: those of
\* the messages up to and including the second most recent user-role message.
EligibleUnpruned(messages) ==
    {pos \in ToolResultPositions(messages) :
        /\ pos[1] <= SecondLatest(UserRoleMessages(messages))
        /\ messages[pos[1]].parts[pos[2]].result # PRUNED_PLACEHOLDER}

\* Position p is newer than position q: a later message, or a later part of
\* the same message.
NewerThan(p, q) == p[1] > q[1] \/ (p[1] = q[1] /\ p[2] > q[2])

RECURSIVE TokensOf(_, _)
TokensOf(messages, S) ==
    IF S = {} THEN 0
    ELSE LET p == CHOOSE x \in S : TRUE
         IN estimateTokens(messages[p[1]].parts[p[2]].result)
                + TokensOf(messages, S \ {p})

\* The estimates of the eligible parts from the newest down to pos, pos included.
RunningSum(messages, eligible, pos) ==
    TokensOf(messages, {q \in eligible : q = pos \/ NewerThan(q, pos)})

RunningSumRule(messages) ==
    LET eligible == EligibleUnpruned(messages)
        candidates == Candidates(messages)
    IN /\ candidates = {pos \in eligible : RunningSum(messages, eligible, pos) > 40000}
       /\ TokensOf(messages, eligible \ candidates) <= 40000
       /\ \A p \in candidates : \A q \in eligible :
              NewerThan(p, q) => q \in candidates

\* C20: in pruneToolOutputs, a part is a pruning candidate exactly when the
\* running sum of the estimates of the eligible, not yet pruned tool-result
\* parts from the newest down to that part exceeds 40,000; the eligible parts
\* that are not candidates total at most 40,000 tokens, and every eligible
\* part older than a candidate is a candidate.  The parts replaced by a
\* pruning run are these candidates.
C20_RunningSumCandidates ==
    /\ cpc = "pruned" =>
          /\ RunningSumRule(conv)
          /\ ~pruned1.sameArray =>
                ChangedPositions(conv, pruned1.messages) = Candidates(conv)
    /\ cpc = "repruned" =>
          /\ RunningSumRule(pruned1.messages)
          /\ ~pruned2.sameArray =>
                ChangedPositions(pruned1.messages, pruned2.messages)
                    = Candidates(pruned1.messages)

\* A pruning run on a conversation where an eligible part brought the
\* running sum to exactly 40,000 and was kept, and an older one was marked.
C20_Witness ==
    /\ cpc = "pruned"
    /\ ~pruned1.sameArray
    /\ \E p \in EligibleUnpruned(conv) \ Candidates(conv) :
          /\ RunningSum(conv, EligibleUnpruned(conv), p) = 40000
          /\ \E q \in Candidates(conv) : NewerThan(p, q)

\* C21: whenever pruneToolOutputs replaces anything, prunedCount is the number
\* of tool-result parts that differ between input and output, tokensSaved is
\* the sum of the estimates those parts had before, tokensSaved is at least
\* 20,000, and getStats of the output reports prunedCount more pruned outputs
\* than getStats of the input.
C21_PruneAccounting ==
    (cpc = "pruned" /\ pruned1.messages # conv) =>
        LET changed == ChangedPositions(conv, pruned1.messages)
        IN /\ SameShape(conv, pruned1.messages)
           /\ pruned1.prunedCount = Cardinality(changed)
           /\ pruned1.tokensSaved = TokensOf(conv, changed)
           /\ pruned1.tokensSaved >= 20000
           /\ getStats(pruned1.messages, ctxModel).prunedOutputs
                = getStats(conv, ctxModel).prunedOutputs + pruned1.prunedCount

\* A pruning run replaced two parts of a conversation that already held a
\* placeholder.
C21_Witness ==
    /\ cpc = "pruned"
    /\ pruned1.prunedCount = 2
    /\ getStats(conv, ctxModel).prunedOutputs >= 1
    /\ getStats(pruned1.messages, ctxModel).prunedOutputs >= 3

\* C22: for every conversation and model, shouldPrune is true exactly when the
\* estimated tokens are strictly greater than 0.70 of the usable context and
\* shouldCompact exactly when they are strictly greater than 0.85 of it; a
\* conversation estimated at exactly a threshold triggers neither, and
\* shouldCompact implies shouldPrune.
C22_ThresholdsExact ==
    cpc # "start" =>
        LET tokens == estimateConversationTokens(conv)
            usable == getUsableContext(ctxModel)
        IN /\ shouldPrune(conv, ctxModel) <=> (10 * tokens > 7 * usable)
           /\ shouldCompact(conv, ctxModel) <=> (100 * tokens > 85 * usable)
           /\ shouldCompact(conv, ctxModel) => shouldPrune(conv, ctxModel)

\* The (action, details) of the permission request of an invocation, as the
\* key "action:details".
RequestKey(inv) ==
    CASE inv.tool = "bash" -> "bash:Execute command: " \o inv.command
      [] inv.tool = "write" -> "write:Overwrite existing file: " \o inv.path
      [] inv.tool = "edit" -> "edit:Edit file: " \o inv.path \o "\n\n" \o inv.diff
      [] OTHER -> ""

\* C23: the Approval Record is append-only: no step removes a key, a key
\* enters only by an affirmative-always answer to a prompt for exactly that
\* (action, details), and a request answered from the record, without a
\* prompt, leaves the record unchanged.
C23_AppendOnlyRecord ==
    [][/\ approvedPatterns \subseteq approvedPatterns'
       /\ approvedPatterns' # approvedPatterns =>
             /\ approvedPatterns' = approvedPatterns \cup
                   {RequestKey(invocations[k]) : k \in At("rl.question")}
             /\ \A k \in At("rl.question") :
                   /\ invocations[k].prompted
                   /\ invocations'[k].answer \in AffirmativeAlways
       /\ \A k \in DOMAIN invocations' :
             LET inv == invocations'[k]
             IN (inv.asked /\ ~Before(k).asked /\ ~inv.prompted) =>
                   /\ RequestKey(inv) \in approvedPatterns
                   /\ approvedPatterns' = approvedPatterns]_vars

\* An overwrite was answered from the record and has written the file.
C23_Witness ==
    \E k \in DOMAIN invocations :
        /\ invocations[k].tool = "write"
        /\ invocations[k].asked
        /\ ~invocations[k].prompted
        /\ invocations[k].wrote
        /\ invocations[k].pc = "returned"
        /\ RequestKey(invocations[k]) \in approvedPatterns

\* C24: when a turn of runAgent (agent.ts) completes, the context warning is
\* shown whenever the estimated tokens of the conversation exceed 70% of the
\* usable context, that is, whenever shouldPrune is true of it.
C24_WarnedWheneverShouldPrune ==
    [][(impl = "sdk" /\ pc # "prompt" /\ pc' = "prompt"
            /\ Len(conversation') > Len(conversation)
            /\ shouldPrune(conversation', model))
          => contextWarning'.shown]_vars

\* C25: after the /model command the process is still running, with the
\* conversation history kept, so that the next message and the commands
\* /exit, /clear, /context and /model can be entered.
C25_ModelCommandKeepsSession ==
    lastCommand = "/model" => pc # "exited"

\* C26: in every turn, the user's message for that turn is part of the
\* conversation sent to the model in the first request of the turn, whatever
\* processMessages did on entry.
C26_UserMessageSent ==
    (pc = "awaiting-model" /\ step = 0 /\ turnInfo.entry # <<>>) =>
        \E i \in 1..Len(request) :
            request[i] = turnInfo.entry[Len(turnInfo.entry)]

\* The three-message summary skeleton, whatever the summary text.
IsSummarySkeleton(messages) ==
    /\ Len(messages) = 3
    /\ \A i \in 1..3 : ~messages[i].isArray
    /\ messages[1].role = "user"
    /\ messages[1].text = Str("What have we accomplished so far in this session?")
    /\ messages[2].role = "assistant"
    /\ messages[3].role = "user"
    /\ messages[3].text = Str("Thanks for the summary. Let's continue.")

\* C27: processMessages reports "compacted" only when the conversation it
\* returns is the three-message summary skeleton, and the conversation
\* returned with "compacted" no longer satisfies shouldCompact unless the
\* summary text alone exceeds the threshold.
C27_CompactedMeansSkeleton ==
    (cpc = "processed" /\ processed.action = "compacted") =>
        /\ IsSummarySkeleton(processed.messages)
        /\ \/ ~shouldCompact(processed.messages, ctxModel)
           \/ 100 * estimateTokens(processed.messages[2].text)
                  > 85 * getUsableContext(ctxModel)

\* C28: pruning never makes the conversation larger: the estimate of the
\* conversation returned by pruneToolOutputs is at most that of the input,
\* and strictly less whenever prunedCount > 0.
C28_PruneNeverGrows ==
    cpc = "pruned" =>
        /\ estimateConversationTokens(pruned1.messages)
                <= estimateConversationTokens(conv)
        /\ pruned1.prunedCount > 0 =>
                estimateConversationTokens(pruned1.messages)
                    < estimateConversationTokens(conv)

\* C29: an approval is never transferred to a different request: a call of
\* askPermission that returns true without prompting was preceded by a call
\* with the same action and the same details that was answered "always".
C29_ApprovalNotTransferred ==
    \A k \in 1..Len(permLog) :
        (~permLog[k].prompted /\ permLog[k].result = "true") =>
            \E j \in 1..(k - 1) :
                /\ permLog[j].action = permLog[k].action
                /\ permLog[j].details = permLog[k].details
                /\ answerRemembers(normalizeAnswer(permLog[j].answer))

\* C30: once a bash invocation has delivered its result it takes no further
\* action: no timer of the invocation stays pending, and proc.kill is not
\* called again for it.
C30_NothingAfterDelivery ==
    [][\A k \in DOMAIN invocations' :
          LET inv == invocations'[k]
          IN inv.tool = "bash" =>
                /\ inv.pc = "returned" => ~inv.timer
                /\ Before(k).pc = "returned" => inv.kills = Before(k).kills]_vars

====
